---- MODULE Spec2Model ----
(***************************************************************************)
(* Synchro: replication of a SynchroSet from a DatastoreServer (producer)  *)
(* to a DatastoreClient (consumer) through Pulsar bundles.                 *)
(*                                                                         *)
(* Items, Sets, the Pulsar queue, the datastore keys and the client's      *)
(* runloop are modelled as the JavaScript sources compute them.  A JS Map  *)
(* is a sequence in insertion order; `undefined` is the string Undefined;  *)
(* a Date is a natural number of milliseconds (0 = no timestamp); a SHA-256*)
(* digest is the tagged pre-image (the hash is taken to be injective).     *)
(***************************************************************************)
EXTENDS Integers, Sequences, FiniteSets, TLC

\* ------------------------------------------------------------------------
\* Bounded universes of the model
\* ------------------------------------------------------------------------
Ids == {"a", "b"}
IdOrder == <<"a", "b">>            \* ids in localeCompare order
ObservedProps == {"n", "p"}        \* observed_properties of the managed class
NotionNames == {"n"}               \* names used with SynchroItem.set()
NameOrder == <<"n", "p">>          \* names in Array.prototype.sort order
Undefined == "undefined"
Absent == "absent"                 \* a member that JSON.stringify dropped
PropValues == {Undefined, "v"}
NoTimestamp == 0
NoNotion == [value |-> Undefined, timestamp |-> NoTimestamp]
InvalidTimestamp == -1             \* a text that new Date() cannot parse
NeverSet == -2                     \* #timestamp of a Notion before any set_value
\* new Notion(name): the name is known to the item, nothing is stored yet
CreatedNotion == [value |-> Undefined, timestamp |-> NeverSet]
NotionInputs == {[value |-> "v", timestamp |-> 1], [value |-> "w", timestamp |-> 2]}
NotionCells == NotionInputs \cup {NoNotion}
ClassName == "Dog"                 \* managed_class.name on both sides

Items ==
  [id : Ids, props : [ObservedProps -> PropValues], notions : [NotionNames -> NotionCells]]

\* new ManagedClass(id): no observed property assigned yet, no notion
NewItem(id) ==
  [id |-> id, props |-> [k \in ObservedProps |-> Undefined],
   notions |-> [k \in NotionNames |-> NoNotion]]

RECURSIVE SeqToSet(_)
SeqToSet(s) == IF s = <<>> THEN {} ELSE {Head(s)} \cup SeqToSet(Tail(s))

DistinctIds(s) == \A i, j \in DOMAIN s : s[i].id = s[j].id => i = j

\* the items handed to add() on the producer: a fresh one and a filled one
AddInputs ==
  {NewItem(id) : id \in Ids} \cup
  {[id |-> id, props |-> [k \in ObservedProps |-> "v"],
    notions |-> [k \in NotionNames |-> [value |-> "v", timestamp |-> 1]]] : id \in Ids}

\* every array of at most MaxItems items with distinct ids
MaxItems == 2
ItemLists ==
  UNION {{s \in [1..n -> Items] : DistinctIds(s)} : n \in 0..MaxItems}

\* ------------------------------------------------------------------------
\* SynchroItem
\* ------------------------------------------------------------------------
NoChange ==
  [property |-> Undefined, old_value |-> Undefined, new_value |-> Undefined,
   new_timestamp |-> NoTimestamp]

Event(name, item, change) == [event_name |-> name, item |-> item, change |-> change]

\* results of operations that may throw: the state reached, the events
\* emitted up to the throw, and the error ("none" when it returned)
Result(items, events, error) == [items |-> items, events |-> events, error |-> error]

Sha256(preimage) == <<"sha256", preimage>>

_value_to_string(value) ==
  IF value = Undefined THEN "undefined" ELSE "\"" \o value \o "\""

\* toISOString of a Date: one string per millisecond instant
toISOString(t) == IF t = NeverSet THEN <<"TypeError">> ELSE <<"iso", t>>

recalculate_checksum(item) ==
  LET prop_keys == SelectSeq(NameOrder, LAMBDA k : k \in ObservedProps)
      notion_keys == SelectSeq(NameOrder,
                       LAMBDA k : k \in NotionNames /\ item.notions[k] # NoNotion)
      props == [i \in DOMAIN prop_keys |->
                  <<"prop", prop_keys[i], _value_to_string(item.props[prop_keys[i]])>>]
      nots == [i \in DOMAIN notion_keys |->
                  <<"notion", notion_keys[i],
                    _value_to_string(item.notions[notion_keys[i]].value),
                    toISOString(item.notions[notion_keys[i]].timestamp)>>]
  IN  Sha256(<<<<"id", item.id>>, <<"type", ClassName>>>> \o props \o nots)

\* the property setter of the managed class followed by dirty()
dirty(item, property, value) ==
  IF value # item.props[property]
  THEN [item |-> [item EXCEPT !.props[property] = value],
        events |-> <<Event("changed", [item EXCEPT !.props[property] = value],
                       [property |-> property, old_value |-> item.props[property],
                        new_value |-> value, new_timestamp |-> NoTimestamp])>>]
  ELSE [item |-> item, events |-> <<>>]

\* Notion.set_value: stores the pair and always emits `changed`
set_value(cell, value, timestamp) ==
  [cell |-> [value |-> value, timestamp |-> timestamp],
   old_value |-> cell.value, old_timestamp |-> cell.timestamp]

\* SynchroItem.set(name, value, timestamp): the Notion of a new name is
\* made and stored, then set_value runs, which throws for a timestamp that
\* is no date
Item_set(item, name, value, timestamp) ==
  LET r == set_value(item.notions[name], value, timestamp)
      after == [item EXCEPT !.notions[name] = r.cell]
  IN  IF timestamp = InvalidTimestamp
      THEN [item |-> [item EXCEPT !.notions[name] =
                        IF @ = NoNotion THEN CreatedNotion ELSE @],
            events |-> <<>>, error |-> "Invalid timestamp"]
      ELSE [item |-> after,
            events |-> <<Event("changed", after,
                           [property |-> name, old_value |-> r.old_value,
                            new_value |-> value, new_timestamp |-> timestamp])>>,
            error |-> "none"]

unset(item, name) == [item EXCEPT !.notions[name] = NoNotion]

\* JSON.stringify drops members whose value is undefined; reading a missing
\* member of the parsed object yields undefined again
JsonValue(v) == IF v = Undefined THEN Absent ELSE v
JsonGet(v) == IF v = Absent THEN Undefined ELSE v

toObject(item) ==
  [id |-> item.id, type |-> ClassName,
   notions |-> item.notions,
   properties |-> [k \in ObservedProps |-> JsonValue(item.props[k])]]

\* static fromObject(obj): new this(obj.id), set() each notion, assign each
\* property that is a member of obj.properties
fromObject(obj) ==
  IF obj.type # ClassName
  THEN [error |-> "TypeError", item |-> NewItem(obj.id)]
  ELSE [error |-> "none",
        item |-> [id |-> obj.id,
                  props |-> [k \in ObservedProps |->
                               IF obj.properties[k] = Absent THEN Undefined
                               ELSE obj.properties[k]],
                  notions |-> obj.notions]]

RECURSIVE update_props(_, _, _)
update_props(item, target, names) ==
  IF names = <<>> THEN [item |-> item, events |-> <<>>]
  ELSE LET k == Head(names)
           one == IF target.props[k] # item.props[k]
                  THEN dirty(item, k, target.props[k])
                  ELSE [item |-> item, events |-> <<>>]
           rest == update_props(one.item, target, Tail(names))
       IN  [item |-> rest.item, events |-> one.events \o rest.events]

RECURSIVE update_notions(_, _, _)
update_notions(item, target, names) ==
  IF names = <<>> THEN [item |-> item, events |-> <<>>]
  ELSE LET k == Head(names)
           mine == item.notions[k]
           theirs == target.notions[k]
           \* two Date objects are never identical, so an existing notion
           \* that the target also has is always set again
           one == IF theirs # NoNotion
                  THEN Item_set(item, k, theirs.value, theirs.timestamp)
                  ELSE IF mine # NoNotion
                       THEN [item |-> unset(item, k), events |-> <<>>]
                       ELSE [item |-> item, events |-> <<>>]
           rest == update_notions(one.item, target, Tail(names))
       IN  [item |-> rest.item, events |-> one.events \o rest.events]

\* SynchroItem.update_to(target)
update_to(item, target) ==
  LET p == update_props(item, target, SelectSeq(NameOrder, LAMBDA k : k \in ObservedProps))
      n == update_notions(p.item, target, SelectSeq(NameOrder, LAMBDA k : k \in NotionNames))
  IN  [item |-> n.item, events |-> p.events \o n.events]

\* ------------------------------------------------------------------------
\* SynchroItem with what the operators above leave out: #notions in the
\* order the notions were created, the Date objects of the timestamps (an
\* instant t and the object's identity ref), and the cached #checksum
\* ------------------------------------------------------------------------
ItemNames == {"m", "n"}
ItemNameOrder == <<"m", "n">>      \* in Array.prototype.sort order
Null == "null"
Date(t, ref) == [t |-> t, ref |-> ref]
NoDate == Date(NoTimestamp, "none")

NewSynchroItem ==
  [id |-> "a", props |-> [k \in ObservedProps |-> Undefined], notions |-> <<>>,
   checksum |-> Null]

names_of(it) == {it.notions[i].name : i \in DOMAIN it.notions}

\* SynchroItem.notion(name), for a name the item has
notion(it, name) ==
  it.notions[CHOOSE i \in DOMAIN it.notions : it.notions[i].name = name]

\* a checksum over the notions in the order they were created
recalculate_unsorted(it) ==
  Sha256(<<<<"id", it.id>>, <<"type", ClassName>>>>
         \o [i \in 1..Len(NameOrder) |->
               <<"prop", NameOrder[i], _value_to_string(it.props[NameOrder[i]])>>]
         \o [i \in DOMAIN it.notions |->
               <<"notion", it.notions[i].name, _value_to_string(it.notions[i].value),
                 toISOString(it.notions[i].timestamp.t)>>])

\* recalculate_checksum(): Object.keys(...).sort() of properties and notions
recalculate(it) ==
  LET notion_keys == SelectSeq(ItemNameOrder, LAMBDA k : k \in names_of(it))
  IN  Sha256(<<<<"id", it.id>>, <<"type", ClassName>>>>
             \o [i \in 1..Len(NameOrder) |->
                   <<"prop", NameOrder[i], _value_to_string(it.props[NameOrder[i]])>>]
             \o [i \in DOMAIN notion_keys |->
                   <<"notion", notion_keys[i],
                     _value_to_string(notion(it, notion_keys[i]).value),
                     toISOString(notion(it, notion_keys[i]).timestamp.t)>>])

Outcome(it, events, error) == [item |-> it, events |-> events, error |-> error]

\* the property setter followed by dirty()
assign(it, k, v) ==
  IF v # it.props[k]
  THEN Outcome([it EXCEPT !.props[k] = v, !.checksum = Null],
               <<[property |-> k, old_value |-> it.props[k], new_value |-> v,
                  old_timestamp |-> NoDate, new_timestamp |-> NoDate]>>, "none")
  ELSE Outcome(it, <<>>, "none")

\* set(name, value, timestamp) with a Date object: Notion.set_value stores
\* the pair and emits `changed`; the item's listener clears #checksum
set(it, name, value, date) ==
  LET had == name \in names_of(it)
      old == IF had THEN notion(it, name)
             ELSE [name |-> name, value |-> Undefined, timestamp |-> NoDate]
      cell == [name |-> name, value |-> value, timestamp |-> date]
      notions == IF had
                 THEN [i \in DOMAIN it.notions |->
                         IF it.notions[i].name = name THEN cell ELSE it.notions[i]]
                 ELSE Append(it.notions, cell)
  IN  Outcome([it EXCEPT !.notions = notions, !.checksum = Null],
              <<[property |-> name, old_value |-> old.value, new_value |-> value,
                 old_timestamp |-> old.timestamp, new_timestamp |-> date]>>, "none")

\* unset(name), as SynchroItem.unset is called in the code
unset_notion(it, name) ==
  IF name \notin names_of(it) THEN Outcome(it, <<>>, "No notion")
  ELSE Outcome([it EXCEPT !.notions = SelectSeq(@, LAMBDA c : c.name # name)],
               <<>>, "none")

\* the three loops of update_to(target)
RECURSIVE sync_props(_, _, _)
sync_props(o, target, names) ==
  IF names = <<>> THEN o
  ELSE LET one == IF target.props[Head(names)] # o.item.props[Head(names)]
                  THEN assign(o.item, Head(names), target.props[Head(names)])
                  ELSE Outcome(o.item, <<>>, "none")
       IN  sync_props(Outcome(one.item, o.events \o one.events, "none"), target, Tail(names))

RECURSIVE sync_notions(_, _, _)
sync_notions(o, target, mine) ==
  IF mine = <<>> THEN o
  ELSE LET my_notion == notion(o.item, Head(mine).name)
           one == IF Head(mine).name \in names_of(target)
                  THEN LET target_notion == notion(target, Head(mine).name)
                       IN  IF target_notion.value # my_notion.value
                              \/ target_notion.timestamp # my_notion.timestamp
                           THEN set(o.item, my_notion.name, target_notion.value,
                                    target_notion.timestamp)
                           ELSE Outcome(o.item, <<>>, "none")
                  ELSE unset_notion(o.item, my_notion.name)
       IN  sync_notions(Outcome(one.item, o.events \o one.events, "none"), target, Tail(mine))

RECURSIVE add_notions(_, _)
add_notions(o, theirs) ==
  IF theirs = <<>> THEN o
  ELSE LET one == IF Head(theirs).name \notin names_of(o.item)
                  THEN set(o.item, Head(theirs).name, Head(theirs).value,
                           Head(theirs).timestamp)
                  ELSE Outcome(o.item, <<>>, "none")
       IN  add_notions(Outcome(one.item, o.events \o one.events, "none"), Tail(theirs))

\* SynchroItem.update_to(target) with the Date objects and the cache
update_to_target(it, target) ==
  IF target.type # ClassName THEN Outcome(it, <<>>, "TypeError")
  ELSE add_notions(sync_notions(sync_props(Outcome(it, <<>>, "none"), target, NameOrder),
                                target, it.notions),
                   target.notions)

NoItemCall ==
  [item |-> NewSynchroItem, calls |-> 0, op |-> "none", arg |-> <<>>, events |-> <<>>,
   error |-> "none", before |-> NewSynchroItem]

\* ------------------------------------------------------------------------
\* SynchroSet: #items is a sequence of items in insertion order
\* ------------------------------------------------------------------------
has(items, id) == \E i \in DOMAIN items : items[i].id = id

find(items, id) == items[CHOOSE i \in DOMAIN items : items[i].id = id]

replace(items, item) ==
  [i \in DOMAIN items |-> IF items[i].id = item.id THEN item ELSE items[i]]

_recalculate_checksum(items) ==
  LET sorted_ids == SelectSeq(IdOrder, LAMBDA id : has(items, id))
  IN  Sha256([i \in DOMAIN sorted_ids |-> recalculate_checksum(find(items, sorted_ids[i]))])

checksum(items) == _recalculate_checksum(items)

\* `item instanceof this.#my_class`: an object of another class has none of
\* the managed class's members
instance_of(obj) == DOMAIN obj = DOMAIN NewItem(obj.id)

\* an add that does not look for the id among its items
add_unchecked(items, item) ==
  IF ~instance_of(item)
  THEN Result(items, <<>>, "TypeError")
  ELSE Result(Append(items, item), <<Event("added", item, NoChange)>>, "none")

add(items, item) ==
  IF ~instance_of(item)
  THEN Result(items, <<>>, "TypeError")
  ELSE IF has(items, item.id)
  THEN Result(items, <<>>, "already exists")
  ELSE Result(Append(items, item), <<Event("added", item, NoChange)>>, "none")

remove(items, id) ==
  IF ~has(items, id)
  THEN Result(items, <<>>, "not found")
  ELSE Result(SelectSeq(items, LAMBDA it : it.id # id),
              <<Event("removed", find(items, id), NoChange)>>, "none")

\* a member's observed property is assigned; _on_changed relays the event
set_property(items, id, property, value) ==
  LET r == dirty(find(items, id), property, value)
  IN  Result(replace(items, r.item), r.events, "none")

\* a member's set(name, value, timestamp) is called
set_notion(items, id, name, value, timestamp) ==
  LET r == Item_set(find(items, id), name, value, timestamp)
  IN  Result(replace(items, r.item), r.events, r.error)

\* this.#items[item.id]: bracket access on a Map reads an own property of
\* the Map object, never an entry, so it is undefined for every id
items_bracket(items, id) == [found |-> FALSE, item |-> NewItem(id)]

RECURSIVE add_all(_, _)
add_all(r, list) ==
  IF list = <<>> \/ r.error # "none" THEN r
  ELSE LET one == add(r.items, Head(list))
       IN  add_all(Result(one.items, r.events \o one.events, one.error), Tail(list))

RECURSIVE remove_all(_, _)
remove_all(r, list) ==
  IF list = <<>> \/ r.error # "none" THEN r
  ELSE LET one == remove(r.items, Head(list).id)
       IN  remove_all(Result(one.items, r.events \o one.events, one.error), Tail(list))

RECURSIVE update_all(_, _)
update_all(r, list) ==
  IF list = <<>> \/ r.error # "none" THEN r
  ELSE LET mine == items_bracket(r.items, Head(list).id)
       IN  IF ~mine.found
           THEN Result(r.items, r.events, "TypeError")
           ELSE LET u == update_to(mine.item, Head(list))
                IN  update_all(Result(replace(r.items, u.item), r.events \o u.events, "none"),
                               Tail(list))

\* update_set_to with the removes performed before the adds
removes_first(items, target) ==
  LET to_add == SelectSeq(target, LAMBDA it : ~has(items, it.id))
      existing == SelectSeq(target, LAMBDA it : has(items, it.id))
      to_remove == SelectSeq(items, LAMBDA it : ~has(target, it.id))
      removed == remove_all(Result(items, <<>>, "none"), to_remove)
      added == add_all(removed, to_add)
  IN  update_all(added, existing)

update_set_to(items, target) ==
  LET to_add == SelectSeq(target, LAMBDA it : ~has(items, it.id))
      existing == SelectSeq(target, LAMBDA it : has(items, it.id))
      to_remove == SelectSeq(items, LAMBDA it : ~has(target, it.id))
      added == add_all(Result(items, <<>>, "none"), to_add)
      removed == remove_all(added, to_remove)
  IN  update_all(removed, existing)

\* SynchroSet.payload(event_name, item, change): the JSON text, kept as the
\* object that JSON.parse gives back
payload(event_name, item, change) ==
  CASE event_name = "added" ->
         [event_name |-> event_name, item |-> toObject(item)]
    [] event_name = "removed" ->
         [event_name |-> event_name, item |-> [id |-> item.id]]
    [] event_name = "changed" ->
         [event_name |-> event_name, item |-> [id |-> item.id],
          change |-> [property |-> change.property,
                      old_value |-> JsonValue(change.old_value),
                      new_value |-> JsonValue(change.new_value),
                      new_timestamp |-> change.new_timestamp]]

\* a receive that takes a change for an id it does not hold as applied
receive_lenient(items, pl) ==
  CASE pl.event_name = Undefined ->
         Result(items, <<>>, "payload does not contain an event_name")
    [] pl.event_name = "added" ->
         LET made == fromObject(pl.item)
         IN  IF made.error # "none" THEN Result(items, <<>>, made.error)
             ELSE add(items, made.item)
    [] pl.event_name = "removed" -> remove(items, pl.item.id)
    [] pl.event_name = "changed" ->
         IF ~has(items, pl.item.id) THEN Result(items, <<>>, "none")
         ELSE IF pl.change.new_timestamp # NoTimestamp
              THEN set_notion(items, pl.item.id, pl.change.property,
                              JsonGet(pl.change.new_value), pl.change.new_timestamp)
              ELSE set_property(items, pl.item.id, pl.change.property,
                                JsonGet(pl.change.new_value))
    [] OTHER -> Result(items, <<>>, "Unknown event type")

\* SynchroSet.receive(str)
receive(items, pl) ==
  CASE pl.event_name = Undefined ->
         Result(items, <<>>, "payload does not contain an event_name")
    [] pl.event_name = "added" ->
         LET made == fromObject(pl.item)
         IN  IF made.error # "none" THEN Result(items, <<>>, made.error)
             ELSE add(items, made.item)
    [] pl.event_name = "removed" -> remove(items, pl.item.id)
    [] pl.event_name = "changed" ->
         IF ~has(items, pl.item.id) THEN Result(items, <<>>, "not found for change event")
         ELSE IF pl.change.new_timestamp # NoTimestamp
              THEN set_notion(items, pl.item.id, pl.change.property,
                              JsonGet(pl.change.new_value), pl.change.new_timestamp)
              ELSE set_property(items, pl.item.id, pl.change.property,
                                JsonGet(pl.change.new_value))
    [] OTHER -> Result(items, <<>>, "Unknown event type")

\* updates.forEach(update => synchroset.receive(update)): stops at the first throw
RECURSIVE receive_all(_, _)
receive_all(r, bundle) ==
  IF bundle = <<>> \/ r.error # "none" THEN r
  ELSE LET one == receive(r.items, Head(bundle))
       IN  receive_all(Result(one.items, r.events \o one.events, one.error), Tail(bundle))

\* ------------------------------------------------------------------------
\* Pulsar
\* ------------------------------------------------------------------------
NoChecksum == <<"none">>
NoPayload == [event_name |-> Undefined]
NullEntry == [payload |-> NoPayload, event_name |-> Undefined, change |-> NoChange]
IsNull(e) == e = NullEntry

\* new Pulsar(opts)
NewPulsar(collapse, allow_empty, include_checksums, has_transmit) ==
  [collapse |-> collapse, allow_empty |-> allow_empty,
   include_checksums |-> include_checksums, transmit |-> has_transmit,
   queue |-> <<>>, added |-> [id \in Ids |-> 0],
   changes_by_id |-> [id \in Ids |-> <<>>], start_checksum |-> NoChecksum]

\* an empty() that resets the indexes and leaves the queue as it is
empty_keeps_queue(p) ==
  [p EXCEPT !.added = [id \in Ids |-> 0],
            !.changes_by_id = [id \in Ids |-> <<>>], !.start_checksum = NoChecksum]

\* Pulsar.empty()
empty(p) ==
  [p EXCEPT !.queue = <<>>, !.added = [id \in Ids |-> 0],
            !.changes_by_id = [id \in Ids |-> <<>>], !.start_checksum = NoChecksum]

\* a queue that pushes every payload and collapses nothing
queue_pushes(p, event_name, item, change) ==
  [p EXCEPT !.queue = Append(@, [payload |-> payload(event_name, item, change),
                                 event_name |-> Undefined, change |-> NoChange])]

\* the queue entry of a payload that takes no part in collapsing
plain(event_name, item, change) ==
  [payload |-> payload(event_name, item, change),
   event_name |-> Undefined, change |-> NoChange]

\* a `removed` that is pushed and cancels nothing
queue_removed_pushes(p, item) ==
  [p EXCEPT !.queue = Append(@, plain("removed", item, NoChange))]

\* Pulsar.queue, case 'removed': cancel the pending `added` or push, and
\* null every pending `changed` of the item
queue_removed(p, item) ==
  LET changes == p.changes_by_id[item.id]
      q1 == IF p.added[item.id] # 0
            THEN [p.queue EXCEPT ![p.added[item.id]] = NullEntry]
            ELSE Append(p.queue, plain("removed", item, NoChange))
      q2 == [k \in DOMAIN q1 |->
               IF \E i \in DOMAIN changes : changes[i] = k THEN NullEntry ELSE q1[k]]
  IN  [p EXCEPT !.queue = q2, !.added[item.id] = 0, !.changes_by_id[item.id] = <<>>]

\* a `changed` that replaces the earlier ones and keeps its own old_value
queue_changed_forgets(p, item, change) ==
  LET changes == p.changes_by_id[item.id]
      matches == {i \in DOMAIN changes :
                    /\ p.queue[changes[i]].event_name = "changed"
                    /\ p.queue[changes[i]].change.property = change.property}
      q1 == [k \in DOMAIN p.queue |->
               IF \E i \in matches : changes[i] = k THEN NullEntry ELSE p.queue[k]]
      kept == SelectSeq(changes, LAMBDA k : \A i \in matches : changes[i] # k)
      entry == [payload |-> payload("changed", item, change),
                event_name |-> "changed", change |-> change]
  IN  [p EXCEPT !.queue = Append(q1, entry),
                !.changes_by_id[item.id] = Append(kept, Len(q1) + 1)]

\* a `changed` that is merged into the place of the earliest pending change
\* of its property instead of being pushed
queue_changed_in_place(p, item, change) ==
  LET changes == p.changes_by_id[item.id]
      matches == {i \in DOMAIN changes :
                    /\ p.queue[changes[i]].event_name = "changed"
                    /\ p.queue[changes[i]].change.property = change.property}
      earliest == CHOOSE i \in matches : \A j \in matches : i <= j
      collapsed == [change EXCEPT
                      !.old_value = p.queue[changes[earliest]].change.old_value]
      entry(c) == [payload |-> payload("changed", item, c),
                   event_name |-> "changed", change |-> c]
  IN  IF matches = {}
      THEN [p EXCEPT !.queue = Append(@, entry(change)),
                     !.changes_by_id[item.id] = Append(@, Len(p.queue) + 1)]
      ELSE [p EXCEPT !.queue[changes[earliest]] = entry(collapsed)]

\* Pulsar.queue, case 'changed': null the pending changes of the same
\* property, carry the old_value of the most recent of them, push
queue_changed(p, item, change) ==
  LET changes == p.changes_by_id[item.id]
      matches == {i \in DOMAIN changes :
                    /\ p.queue[changes[i]].event_name = "changed"
                    /\ p.queue[changes[i]].change.property = change.property}
      latest == CHOOSE i \in matches : \A j \in matches : j <= i
      collapsed == IF matches = {} THEN change
                   ELSE [change EXCEPT
                           !.old_value = p.queue[changes[latest]].change.old_value]
      q1 == [k \in DOMAIN p.queue |->
               IF \E i \in matches : changes[i] = k THEN NullEntry ELSE p.queue[k]]
      kept == SelectSeq(changes, LAMBDA k : \A i \in matches : changes[i] # k)
      entry == [payload |-> payload("changed", item, collapsed),
                event_name |-> "changed", change |-> collapsed]
  IN  [p EXCEPT !.queue = Append(q1, entry),
                !.changes_by_id[item.id] = Append(kept, Len(q1) + 1)]

\* Pulsar.queue(event_name, item, change); indices into the queue are
\* 1-based here, and added[id] = 0 stands for `!(id in this.#added)`
queue(p, event_name, item, change) ==
  IF ~p.collapse
  THEN [p EXCEPT !.queue = Append(@, plain(event_name, item, change))]
  ELSE CASE event_name = "added" ->
         [p EXCEPT !.queue = Append(@, plain(event_name, item, change)),
                   !.added[item.id] = Len(p.queue) + 1]
    [] event_name = "removed" -> queue_removed(p, item)
    [] event_name = "changed" -> queue_changed(p, item, change)
    [] OTHER -> p

\* a capture made by every Pulsar that has include_checksums on
capture_start_always(p, before) ==
  IF p.include_checksums /\ p.start_checksum = NoChecksum
  THEN [p EXCEPT !.start_checksum = checksum(before)]
  ELSE p

\* the first event a collapsing Pulsar is handed after an emit records the
\* Set's checksum from before the mutation when include_checksums is on; a
\* Pulsar that does not collapse pushes the payload and captures nothing
capture_start(p, before) ==
  IF p.collapse /\ p.include_checksums /\ p.start_checksum = NoChecksum
  THEN [p EXCEPT !.start_checksum = checksum(before)]
  ELSE p

\* SynchroSet._transmit for every event of one mutating call
RECURSIVE _transmit(_, _, _)
_transmit(p, events, before) ==
  IF events = <<>> THEN p
  ELSE LET e == Head(events)
       IN  _transmit(queue(capture_start(p, before), e.event_name, e.item, e.change),
                     Tail(events), before)

\* the change object after Pulsar.queue has run: a collapsing Pulsar that
\* holds a pending change of the property assigns change.old_value
change_after(p, event_name, item, change) ==
  LET changes == p.changes_by_id[item.id]
      matches == {i \in DOMAIN changes :
                    /\ p.queue[changes[i]].event_name = "changed"
                    /\ p.queue[changes[i]].change.property = change.property}
      latest == CHOOSE i \in matches : \A j \in matches : j <= i
  IN  IF p.collapse /\ event_name = "changed" /\ matches # {}
      THEN [change EXCEPT !.old_value = p.queue[changes[latest]].change.old_value]
      ELSE change

\* the entry a collapsing Pulsar pushed for a `changed` event holds the
\* change object itself, so it reads what a later Pulsar assigned to it
relink(p, event_name, change) ==
  IF p.collapse /\ event_name = "changed"
  THEN [p EXCEPT !.queue[Len(p.queue)].change = change]
  ELSE p

\* SynchroSet._transmit, the for loop over #transmit for one event: one
\* change object is built and handed to the queue() of every Pulsar in turn
RECURSIVE transmit_loop(_, _, _, _)
transmit_loop(made, order, e, before) ==
  IF order = <<>> THEN [made |-> made, change |-> e.change]
  ELSE LET i == Head(order)
           q == queue(capture_start(made[i].p, before), e.event_name, e.item, e.change)
           c == change_after(made[i].p, e.event_name, e.item, e.change)
       IN  transmit_loop([made EXCEPT ![i].p = q], Tail(order),
                         [e EXCEPT !.change = c], before)

\* _transmit for every event of one mutating call, the Pulsars of #transmit
\* being made[order[1]], made[order[2]], ...
RECURSIVE transmit_all(_, _, _, _)
transmit_all(made, order, events, before) ==
  IF events = <<>> THEN made
  ELSE LET e == Head(events)
           r == transmit_loop(made, order, e, before)
           linked == [i \in DOMAIN made |->
                        IF \E k \in DOMAIN order : order[k] = i
                        THEN [r.made[i] EXCEPT !.p = relink(@, e.event_name, r.change)]
                        ELSE r.made[i]]
       IN  transmit_all(linked, order, Tail(events), before)

framing_record(p, items) ==
  [event_name |-> "comment", metadata |-> TRUE,
   start_checksum |-> IF p.start_checksum = NoChecksum THEN checksum(items)
                      ELSE p.start_checksum,
   end_checksum |-> checksum(items)]

\* a trigger that delivers whatever the queue holds, also nothing at all
trigger_allows_empty(p, items) ==
  LET live == SelectSeq(p.queue, LAMBDA e : ~IsNull(e))
      bundle == [i \in DOMAIN live |-> live[i].payload]
  IN  IF ~p.transmit THEN [delivered |-> FALSE, bundle |-> <<>>]
      ELSE [delivered |-> TRUE,
            bundle |-> IF p.include_checksums
                       THEN <<framing_record(p, items)>> \o bundle ELSE bundle]

\* Pulsar.trigger(): what is delivered to the transmit functions, if anything
trigger(p, items) ==
  LET live == SelectSeq(p.queue, LAMBDA e : ~IsNull(e))
      bundle == [i \in DOMAIN live |-> live[i].payload]
  IN  IF ~p.transmit THEN [delivered |-> FALSE, bundle |-> <<>>]
      ELSE IF bundle = <<>> /\ ~p.allow_empty THEN [delivered |-> FALSE, bundle |-> <<>>]
      ELSE [delivered |-> TRUE,
            bundle |-> IF p.include_checksums
                       THEN <<framing_record(p, items)>> \o bundle ELSE bundle]

\* ------------------------------------------------------------------------
\* DatastoreServer and the datastore keys it owns
\* ------------------------------------------------------------------------
\* update intervals, which the code holds in seconds, are held here in
\* thousandths of a second: 100 is update_intervals: [.1], 10000 the default
UpdateInterval == 100
OtherInterval == 10000

\* DatastoreServer.interval_string(interval): [n, unit] is the text n unit
interval_string(interval) ==
  IF interval >= 1000
  THEN [n |-> (interval + 500) \div 1000, unit |-> "s"]
  ELSE [n |-> interval, unit |-> "ms"]

\* DatastoreClient.polling_interval_to_ms
polling_interval_to_ms(tag) == IF tag.unit = "ms" THEN tag.n ELSE tag.n * 1000

\* the `all` endpoint: synchroset.all().map(item => item.toObject())
all_endpoint(items) == [i \in DOMAIN items |-> toObject(items[i])]

\* ------------------------------------------------------------------------
\* DatastoreClient
\* ------------------------------------------------------------------------
MaxChains == 2                     \* timer chains that may exist at once
ChainIds == 1..MaxChains
NoTimer == 0
RunloopInterval == 50              \* options.runloop_interval
DefaultPollingIntervalMs == 10000
Pulsar_tag == [n |-> 100, unit |-> "ms"]   \* options.pulsar: '100ms'
BackoffSteps == <<0, 1>>           \* options.backoff_steps, in seconds
MaxIterations == 3                 \* runloop_iterations saturates here

\* Backoff constructor: seconds to milliseconds
steps_ms == [i \in DOMAIN BackoffSteps |-> BackoffSteps[i] * 1000]

\* Backoff.interval() after its wait: advance, clamped to the last step
advance(step) == IF step < Len(steps_ms) - 1 THEN step + 1 ELSE step

\* Backoff.reset()
reset == 0

\* new Backoff(steps): the steps in milliseconds, at the first step; waiting,
\* delayMs and returned follow the interval() calls made on the object
NewBackoff(steps) ==
  [steps |-> [i \in DOMAIN steps |-> steps[i] * 1000], currentStep |-> 0,
   waiting |-> FALSE, delayMs |-> 0, returned |-> 0]

\* get current_delay_ms; #steps is indexed from 0 in the code
current_delay_ms(b) == b.steps[b.currentStep + 1]

\* an advance that starts over after the last step
next_step_wraps(b) ==
  IF b.currentStep < Len(b.steps) - 1 THEN b.currentStep + 1 ELSE 0

\* Backoff.interval(), after the wait: the step it moves to
next_step(b) ==
  IF b.currentStep < Len(b.steps) - 1 THEN b.currentStep + 1 ELSE b.currentStep

\* a test that is true only after the polling interval has passed
due_after(runloop_iterations, runloop_interval, polling_interval_ms) ==
  runloop_iterations * runloop_interval > polling_interval_ms

\* elapsed_ms >= this.#polling_interval_ms
due(runloop_iterations, runloop_interval, polling_interval_ms) ==
  runloop_iterations * runloop_interval >= polling_interval_ms

NewClient ==
  [state |-> "INITIAL", running |-> FALSE, _runloop_busy |-> FALSE,
   runloop_interval_id |-> NoTimer, runloop_iterations |-> 0,
   polling_interval_ms |-> DefaultPollingIntervalMs, currentStep |-> 0]

\* one timer chain: where its callback is, and the locals of its iteration
IdleChain == [pc |-> "none", server_class_name |-> Undefined,
              available_pulsars |-> {}, error |-> "none"]
TimerChain == [IdleChain EXCEPT !.pc = "timer"]

\* a class-name test that only asks for a name
class_name_present(server_class_name) ==
  server_class_name # Undefined

\* the class-name test of the INITIAL branch
class_name_ok(server_class_name) ==
  server_class_name # Undefined /\ server_class_name = ClassName

\* the first entry is checksum metadata
is_metadata(updates) ==
  /\ updates # <<>>
  /\ updates[1].event_name = "comment"
  /\ updates[1].metadata = TRUE

\* _process_updates without the end_checksum shortcut
_process_updates_always_applies(items, updates) ==
  IF updates = <<>>
  THEN [items |-> items, events |-> <<>>, error |-> "none", submitted |-> 0, skipped |-> FALSE]
  ELSE LET r == receive_all(Result(items, <<>>, "none"), updates)
       IN  [items |-> r.items, events |-> r.events, error |-> r.error,
            submitted |-> Len(updates), skipped |-> FALSE]

\* DatastoreClient._process_updates(updates) on the Set `items`
_process_updates(items, updates) ==
  IF updates = <<>>
  THEN [items |-> items, events |-> <<>>, error |-> "none", submitted |-> 0, skipped |-> FALSE]
  ELSE IF is_metadata(updates) /\ updates[1].end_checksum = checksum(items)
  THEN [items |-> items, events |-> <<>>, error |-> "none", submitted |-> 0, skipped |-> TRUE]
  ELSE LET r == receive_all(Result(items, <<>>, "none"), updates)
       IN  [items |-> r.items, events |-> r.events, error |-> r.error,
            submitted |-> Len(updates), skipped |-> FALSE]

\* ------------------------------------------------------------------------
\* State
\* ------------------------------------------------------------------------
VARIABLES
  pset,       \* the producer SynchroSet's #items
  installed,  \* the producer Set's #transmit holds the Pulsar
  pulsar,     \* the Pulsar of the one configured cadence
  server,     \* DatastoreServer: #running
  store,      \* the datastore keys classname, pulsars and pulsars.<tag>
  cset,       \* the consumer SynchroSet's #items
  client,     \* DatastoreClient's private fields
  chains,     \* the setTimeout chains started by start()
  resynced,   \* resync() was called and no iteration has begun since
  call,       \* the last update_set_to / _process_updates call on cset
  base,       \* the producer Set at the previous trigger
  applied,    \* the bundle of the last trigger received by a copy of base
  queued,     \* the events handed to Pulsar.queue since the previous trigger
  fanout,     \* the producer Set's mutations and what its second listener saw
  backoff,    \* a Backoff object on its own, with the calls made on it
  synchroitem, \* a SynchroItem on its own, with the last call made on it
  endpoint,   \* a DatastoreServer with its cadences, Pulsars and datastore keys
  shared,     \* item objects and the Sets of one managed class that hold them
  polling,    \* a consumer's loop counter against its two intervals
  cache,      \* a Set with its cached #checksum and the reads made of it
  mutations   \* producer mutations made so far

vars == <<pset, installed, pulsar, server, store, cset, client, chains, resynced,
          call, base, applied, queued, fanout, backoff, synchroitem,
          endpoint, shared, polling, cache, mutations>>

producer_vars == <<pset, installed, pulsar, server, store, mutations>>
consumer_vars == <<cset, client, chains, resynced, call>>
mirror_vars == <<base, applied, queued, fanout, backoff, synchroitem, endpoint, shared, polling, cache>>

NoCall == [op |-> "none", before |-> <<>>, arg |-> <<>>, error |-> "none",
           events |-> <<>>, submitted |-> 0, skipped |-> FALSE]
NoFanout == [mutated |-> <<>>, observed |-> <<>>, listener_first |-> FALSE,
             detached |-> <<>>, clock |-> 0, last_receive |-> 0]
NotApplied == [done |-> FALSE, items |-> <<>>, error |-> "none", bundle |-> <<>>]
NoStore == [classname |-> Undefined, pulsars |-> {}, bundle |-> <<>>]
NoEndpoint == [update_intervals |-> <<>>, running |-> FALSE, made |-> <<>>,
               pulsars |-> <<>>, transmit |-> <<>>, data |-> <<>>,
               op |-> "none", arg |-> 0, wrote |-> {}, polling_interval_ms |-> 0]
NoPolling == [runloop_interval |-> 0, polling_interval_ms |-> 0, state |-> "INITIAL",
              runloop_iterations |-> 0, got |-> FALSE, since |-> 0, fetches |-> 0,
              running |-> FALSE, busy |-> FALSE, failures |-> 0, waited |-> 0,
              op |-> "none"]
NoCache == [items |-> <<>>, checksum |-> "null", early |-> {}, reads |-> <<>>,
            calls |-> 0, op |-> "none"]
NoShared == [objects |-> <<>>, sets |-> <<>>, hooks |-> <<>>, calls |-> 0,
             op |-> "none", error |-> "none", relayed |-> <<>>]

\* ------------------------------------------------------------------------
\* Producer: mutations of the Set, relayed to the Pulsar through _transmit
\* ------------------------------------------------------------------------
MaxQueue == 3                      \* queue entries between two triggers

Mutate(r) ==
  /\ Len(pulsar.queue) < MaxQueue
  /\ pset' = r.items
  /\ pulsar' = IF installed THEN _transmit(pulsar, r.events, pset) ELSE pulsar

Producer_add(item) ==
  /\ ~has(pset, item.id)
  /\ Mutate(add(pset, item))

Producer_remove(id) ==
  /\ has(pset, id)
  /\ Mutate(remove(pset, id))

Producer_set_property(id, property, value) ==
  /\ has(pset, id)
  /\ find(pset, id).props[property] # value
  /\ Mutate(set_property(pset, id, property, value))

Producer_set(id, name, cell) ==
  /\ has(pset, id)
  /\ Mutate(set_notion(pset, id, name, cell.value, cell.timestamp))

\* ------------------------------------------------------------------------
\* SpecUpdate: update_set_to applied to every Set and every argument list
\* ------------------------------------------------------------------------
InitUpdate ==
  /\ cset \in ItemLists
  /\ call = NoCall
  /\ pset = <<>> /\ installed = FALSE
  /\ pulsar = NewPulsar(TRUE, TRUE, FALSE, FALSE)
  /\ server = [running |-> FALSE] /\ store = NoStore /\ mutations = 0
  /\ client = NewClient /\ chains = [c \in ChainIds |-> IdleChain]
  /\ resynced = FALSE
  /\ base = <<>> /\ applied = NotApplied /\ queued = <<>> /\ fanout = NoFanout
  /\ backoff = NewBackoff(BackoffSteps) /\ synchroitem = NoItemCall
  /\ endpoint = NoEndpoint /\ shared = NoShared /\ polling = NoPolling /\ cache = NoCache

UpdateSetTo ==
  /\ call.op = "none"
  /\ \E target \in ItemLists :
       LET r == update_set_to(cset, target)
       IN  /\ cset' = r.items
           /\ call' = [NoCall EXCEPT !.op = "update_set_to", !.before = cset,
                         !.arg = target, !.error = r.error, !.events = r.events]
  /\ UNCHANGED <<producer_vars, client, chains, resynced, mirror_vars>>

NextUpdate == UpdateSetTo

SpecUpdate == InitUpdate /\ [][NextUpdate]_vars

\* ------------------------------------------------------------------------
\* SpecCollapse: a collapsing Pulsar is the Set's transmit; every bundle it
\* emits is received by a Set equal to the producer's Set at the previous
\* trigger.  The interval starts from any Set the producer can hold.
\* ------------------------------------------------------------------------
InitCollapse ==
  /\ pset \in ItemLists /\ installed = TRUE
  /\ pulsar = NewPulsar(TRUE, TRUE, FALSE, TRUE)
  /\ server = [running |-> FALSE] /\ store = NoStore /\ mutations = 0
  /\ cset = <<>> /\ call = NoCall
  /\ client = NewClient /\ chains = [c \in ChainIds |-> IdleChain]
  /\ resynced = FALSE
  /\ base = pset /\ applied = NotApplied /\ queued = <<>> /\ fanout = NoFanout
  /\ backoff = NewBackoff(BackoffSteps) /\ synchroitem = NoItemCall
  /\ endpoint = NoEndpoint /\ shared = NoShared /\ polling = NoPolling /\ cache = NoCache

\* p.trigger() by hand, the bundle handed to receive() entry by entry
Trigger_receive ==
  LET t == trigger(pulsar, pset)
      r == receive_all(Result(base, <<>>, "none"), t.bundle)
  IN  /\ ~applied.done
      /\ t.delivered
      /\ applied' = [done |-> TRUE, items |-> r.items, error |-> r.error,
                     bundle |-> t.bundle]
      /\ base' = pset
      /\ pulsar' = empty(pulsar)
      /\ UNCHANGED <<pset, installed, server, store, mutations, consumer_vars, queued, fanout,
                  backoff, synchroitem, endpoint, shared, polling, cache>>

MutateCollapse ==
  /\ ~applied.done
  /\ \/ \E item \in AddInputs : Producer_add(item)
     \/ \E id \in Ids : Producer_remove(id)
     \/ \E id \in Ids, k \in ObservedProps, v \in PropValues : Producer_set_property(id, k, v)
     \/ \E id \in Ids, k \in NotionNames, cell \in NotionInputs : Producer_set(id, k, cell)
  /\ UNCHANGED <<installed, server, store, mutations, consumer_vars, mirror_vars>>

NextCollapse == MutateCollapse \/ Trigger_receive

SpecCollapse == InitCollapse /\ [][NextCollapse]_vars

\* ------------------------------------------------------------------------
\* Spec: a DatastoreServer and a DatastoreClient on one datastore
\* ------------------------------------------------------------------------
MaxMutations == 1                  \* producer mutations in one behaviour
SysIds == {"a"}                    \* ids the producer uses in this system
ServerClassNames == {ClassName, "Cat", Undefined}
ServerIntervals == {UpdateInterval, OtherInterval}
\* what the producer's Set holds when the DatastoreServer is constructed
InitialSets == {<<>>, <<NewItem("a")>>}

\* DatastoreServer constructor: classname, pulsars and all are registered
NewStore(class_name, interval) ==
  [classname |-> class_name, pulsars |-> {interval_string(interval)}, bundle |-> <<>>]

Init ==
  /\ pset \in InitialSets /\ installed = FALSE
  /\ pulsar = NewPulsar(TRUE, TRUE, TRUE, FALSE)
  /\ server = [running |-> FALSE]
  /\ store \in {NewStore(cn, t) : cn \in ServerClassNames, t \in ServerIntervals}
  /\ mutations = 0
  /\ cset = <<>> /\ call = NoCall
  /\ client = NewClient /\ chains = [c \in ChainIds |-> IdleChain]
  /\ resynced = FALSE
  /\ base = <<>> /\ applied = NotApplied /\ queued = <<>> /\ fanout = NoFanout
  /\ backoff = NewBackoff(BackoffSteps) /\ synchroitem = NoItemCall
  /\ endpoint = NoEndpoint /\ shared = NoShared /\ polling = NoPolling /\ cache = NoCache

\* DatastoreServer.start(): a new Pulsar with include_checksums, installed
\* as the Set's transmit
Server_start ==
  /\ ~server.running
  /\ pulsar' = NewPulsar(TRUE, TRUE, TRUE, TRUE)
  /\ installed' = TRUE
  /\ server' = [server EXCEPT !.running = TRUE]
  /\ UNCHANGED <<pset, store, mutations, consumer_vars, mirror_vars>>

\* the Pulsar's setInterval fires: trigger() writes the bundle to
\* pulsars.<tag> and empties the queue
Server_trigger ==
  /\ server.running
  /\ LET t == trigger(pulsar, pset)
     IN  store' = IF t.delivered /\ Pulsar_tag \in store.pulsars
                  THEN [store EXCEPT !.bundle = t.bundle] ELSE store
  /\ pulsar' = empty(pulsar)
  /\ UNCHANGED <<pset, installed, server, mutations, consumer_vars, mirror_vars>>

Server_mutate ==
  /\ mutations < MaxMutations
  /\ mutations' = mutations + 1
  /\ \/ \E item \in AddInputs : item.id \in SysIds /\ Producer_add(item)
     \/ \E id \in SysIds : Producer_remove(id)
     \/ \E id \in SysIds, k \in ObservedProps, v \in PropValues :
          Producer_set_property(id, k, v)
     \/ \E id \in SysIds, k \in NotionNames, cell \in NotionInputs : Producer_set(id, k, cell)
  /\ UNCHANGED <<installed, server, store, consumer_vars, mirror_vars>>

\* ---- DatastoreClient ----------------------------------------------------
Gets == {"classname", "pulsars", "all", "updates"}
InFlight(ch) == ch.pc \in Gets \cup {"backoff"}

\* finally { busy = false }, return, then _scheduleNextRunloop()
finish(cl, c) ==
  LET done == [cl EXCEPT !._runloop_busy = FALSE]
  IN  IF done.running
      THEN [client |-> [done EXCEPT !.runloop_interval_id = c], chain |-> TimerChain]
      ELSE [client |-> done, chain |-> IdleChain]

\* a catch block that keeps the state it finds
catch_keeps_state(cl, ch, error) ==
  [client |-> cl, chain |-> [ch EXCEPT !.pc = "backoff", !.error = error]]

\* the catch block up to `await this.#backoff.interval()`
catch(cl, ch, error) ==
  [client |-> [cl EXCEPT !.state = "INITIAL"],
   chain |-> [ch EXCEPT !.pc = "backoff", !.error = error]]

Become(c, next) ==
  /\ client' = next.client
  /\ chains' = [chains EXCEPT ![c] = next.chain]

\* the lowest free slot hosts the chain that start() creates
FreeChain == CHOOSE c \in ChainIds :
               chains[c].pc = "none" /\ \A d \in ChainIds : chains[d].pc = "none" => c <= d

\* DatastoreClient.start()
Client_start ==
  /\ ~client.running
  /\ \E c \in ChainIds : chains[c].pc = "none"
  /\ client' = [client EXCEPT !.running = TRUE, !.currentStep = reset,
                              !.runloop_interval_id = FreeChain]
  /\ chains' = [chains EXCEPT ![FreeChain] = TimerChain]
  /\ UNCHANGED <<producer_vars, cset, resynced, call, mirror_vars>>

\* DatastoreClient.stop(): clearTimeout reaches only the timer whose handle
\* is in runloop_interval_id, and only while it is pending
Client_stop ==
  /\ client.running
  /\ client' = [client EXCEPT !.running = FALSE, !.runloop_interval_id = NoTimer,
                              !.state = "INITIAL", !._runloop_busy = FALSE,
                              !.currentStep = reset]
  /\ chains' = [c \in ChainIds |->
                  IF c = client.runloop_interval_id /\ chains[c].pc = "timer"
                  THEN IdleChain ELSE chains[c]]
  /\ resynced' = FALSE
  /\ UNCHANGED <<producer_vars, cset, call, mirror_vars>>

\* DatastoreClient.resync()
Client_resync ==
  /\ client.running
  /\ client' = [client EXCEPT !.state = "INITIAL", !.currentStep = reset,
                              !.runloop_iterations = 0]
  /\ resynced' = TRUE
  /\ UNCHANGED <<producer_vars, cset, chains, call, mirror_vars>>

\* the setTimeout callback of chain c runs _runloop() up to its first await
Runloop_tick(c) ==
  /\ chains[c].pc = "timer"
  /\ IF ~client.running
     THEN /\ chains' = [chains EXCEPT ![c] = IdleChain]
          /\ UNCHANGED <<client, resynced>>
     ELSE IF client._runloop_busy
     THEN /\ client' = [client EXCEPT !.runloop_interval_id = c]
          /\ UNCHANGED <<chains, resynced>>
     ELSE LET n == IF client.runloop_iterations < MaxIterations
                   THEN client.runloop_iterations + 1 ELSE MaxIterations
              entered == [client EXCEPT !._runloop_busy = TRUE, !.runloop_iterations = n]
          IN  /\ resynced' = FALSE
              /\ IF client.state = "INITIAL"
                 THEN Become(c, [client |-> entered,
                                 chain |-> [chains[c] EXCEPT !.pc = "classname"]])
                 ELSE IF due(n, RunloopInterval, client.polling_interval_ms)
                 THEN Become(c, [client |-> [entered EXCEPT !.runloop_iterations = 0],
                                 chain |-> [chains[c] EXCEPT !.pc = "updates"]])
                 ELSE Become(c, finish([entered EXCEPT !.currentStep = reset], c))
  /\ UNCHANGED <<producer_vars, cset, call, mirror_vars>>

\* the awaited datastore.get() of chain c resolves and _runloop() continues
Runloop_get_returns(c) ==
  LET ch == chains[c] IN
  /\ ch.pc \in Gets
  /\ CASE ch.pc = "classname" ->
            /\ IF class_name_ok(store.classname)
               THEN Become(c, [client |-> client,
                               chain |-> [ch EXCEPT !.pc = "pulsars",
                                                    !.server_class_name = store.classname]])
               ELSE Become(c, catch(client, ch, "Class name mismatch"))
            /\ UNCHANGED <<cset, call>>
       [] ch.pc = "pulsars" ->
            /\ IF Pulsar_tag \in store.pulsars
               THEN Become(c, [client |-> client,
                               chain |-> [ch EXCEPT !.pc = "all",
                                                    !.available_pulsars = store.pulsars]])
               ELSE Become(c, catch(client, ch, "Pulsar is not available"))
            /\ UNCHANGED <<cset, call>>
       [] ch.pc = "all" ->
            LET all_items == all_endpoint(pset)
                made == [i \in DOMAIN all_items |-> fromObject(all_items[i])]
                class_instances == [i \in DOMAIN made |-> made[i].item]
                r == update_set_to(cset, class_instances)
            IN  IF \E i \in DOMAIN made : made[i].error # "none"
                THEN /\ Become(c, catch(client, ch, "fromObject"))
                     /\ UNCHANGED <<cset, call>>
                ELSE /\ cset' = r.items
                     /\ call' = [NoCall EXCEPT !.op = "update_set_to", !.before = cset,
                                   !.arg = class_instances, !.error = r.error,
                                   !.events = r.events]
                     /\ IF r.error # "none"
                        THEN Become(c, catch(client, ch, r.error))
                        ELSE Become(c, finish(
                               [client EXCEPT
                                  !.currentStep = reset,
                                  !.polling_interval_ms = polling_interval_to_ms(Pulsar_tag),
                                  !.state = "POLLING",
                                  !.runloop_iterations = 0], c))
       [] ch.pc = "updates" ->
            LET r == _process_updates(cset, store.bundle)
            IN  /\ cset' = r.items
                /\ call' = [op |-> "_process_updates", before |-> cset,
                            arg |-> store.bundle, error |-> r.error, events |-> r.events,
                            submitted |-> r.submitted, skipped |-> r.skipped]
                /\ IF r.error # "none"
                   THEN Become(c, catch(client, ch, r.error))
                   ELSE Become(c, finish([client EXCEPT !.currentStep = reset], c))
  /\ UNCHANGED <<producer_vars, resynced, mirror_vars>>

\* the awaited datastore.get() of chain c rejects
Runloop_get_throws(c) ==
  /\ chains[c].pc \in Gets
  /\ Become(c, catch(client, chains[c], "get failed"))
  /\ UNCHANGED <<producer_vars, cset, resynced, call, mirror_vars>>

\* the wait of Backoff.interval() is over: advance the step, leave _runloop
Backoff_done(c) ==
  /\ chains[c].pc = "backoff"
  /\ Become(c, finish([client EXCEPT !.currentStep = advance(client.currentStep)], c))
  /\ UNCHANGED <<producer_vars, cset, resynced, call, mirror_vars>>

Next ==
  \/ Server_start
  \/ Server_trigger
  \/ Server_mutate
  \/ Client_start
  \/ Client_stop
  \/ Client_resync
  \/ \E c \in ChainIds : Runloop_tick(c)
  \/ \E c \in ChainIds : Runloop_get_returns(c)
  \/ \E c \in ChainIds : Runloop_get_throws(c)
  \/ \E c \in ChainIds : Backoff_done(c)

Spec == Init /\ [][Next]_vars

\* ------------------------------------------------------------------------
\* Properties
\* ------------------------------------------------------------------------
ids_of(items) == {items[i].id : i \in DOMAIN items}

\* C2: the bundle emitted by a collapsing Pulsar for the mutations of one
\* interval, received entry by entry by a Set equal to the producer's Set at
\* the previous trigger, raises no error and leaves that Set with the
\* checksum the producer's Set had at the trigger.
C2_CollapsingSoundness ==
  applied.done => /\ applied.error = "none"
                  /\ checksum(applied.items) = checksum(base)

\* C6: update_set_to(items) leaves the Set with exactly the ids of its
\* argument and with the checksum of a Set that holds the argument's items,
\* for every starting Set and every argument with distinct ids.
C6_UpdateSetToConverges ==
  call.op = "update_set_to" =>
    /\ call.error = "none"
    /\ ids_of(cset) = ids_of(call.arg)
    /\ checksum(cset) = checksum(call.arg)

\* C35: the events emitted by update_set_to come in the order of its three
\* groups: every `added` event before any `removed` event, and every
\* `removed` event before any `changed` event; the `added` events are those
\* of the argument's new ids and the `removed` events those of the members
\* absent from the argument, each in the order of its list.
group_of(e) ==
  CASE e.event_name = "added" -> 1
    [] e.event_name = "removed" -> 2
    [] OTHER -> 3

InitFair ==
  /\ pset \in InitialSets /\ installed = TRUE
  /\ pulsar = NewPulsar(TRUE, TRUE, TRUE, TRUE)
  /\ server = [running |-> TRUE]
  /\ store = NewStore(ClassName, UpdateInterval)
  /\ mutations = 0
  /\ cset = <<>> /\ call = NoCall
  /\ client = NewClient /\ chains = [c \in ChainIds |-> IdleChain]
  /\ resynced = FALSE
  /\ base = <<>> /\ applied = NotApplied /\ queued = <<>> /\ fanout = NoFanout
  /\ backoff = NewBackoff(BackoffSteps) /\ synchroitem = NoItemCall
  /\ endpoint = NoEndpoint /\ shared = NoShared /\ polling = NoPolling /\ cache = NoCache

Ticks == \E c \in ChainIds : Runloop_tick(c)
Gets_return == \E c \in ChainIds : Runloop_get_returns(c)
Backoffs_end == \E c \in ChainIds : Backoff_done(c)

NextFair ==
  \/ Server_trigger
  \/ Server_mutate
  \/ Client_start
  \/ Ticks
  \/ Gets_return
  \/ Backoffs_end

\* setTimeout and setInterval callbacks run, awaited gets resolve, and
\* the consumer is started
Fairness ==
  /\ WF_vars(Server_trigger)
  /\ WF_vars(Client_start)
  /\ WF_vars(Ticks) /\ WF_vars(Gets_return) /\ WF_vars(Backoffs_end)

SpecFair == InitFair /\ [][NextFair]_vars /\ Fairness

\* the application calls resync() on a consumer in POLLING whose Set differs
\* from the producer's
App_resync ==
  /\ client.state = "POLLING"
  /\ checksum(cset) # checksum(pset)
  /\ Client_resync

NextResync == NextFair \/ App_resync

SpecResync == InitFair /\ [][NextResync]_vars /\ Fairness

\* ---- properties of the DatastoreClient loop (specification Spec) ------
polls_frame(c) ==
  /\ Runloop_get_returns(c)
  /\ chains[c].pc = "updates"
  /\ is_metadata(store.bundle)

\* C4: when the first entry of a polled bundle is a framing record whose
\* end_checksum equals the consumer Set's checksum, no entry is submitted to
\* receive(): the items are unchanged, no event is emitted, nothing is
\* raised and the iteration leaves the consumer's state as it found it.
C4_FramingDiscard ==
  [][\A c \in ChainIds :
       (polls_frame(c) /\ store.bundle[1].end_checksum = checksum(cset)) =>
         /\ call'.submitted = 0
         /\ call'.events = <<>>
         /\ call'.error = "none"
         /\ cset' = cset
         /\ client'.state = client.state
         /\ chains'[c].pc # "backoff"]_vars

C4_Witness ==
  /\ call.op = "_process_updates" /\ call.skipped
  /\ Len(call.arg) > 1
  /\ cset = call.before /\ cset # <<>>
  /\ client.state = "POLLING"

\* C5: when a polled bundle starts with a framing record whose end_checksum
\* differs from the consumer Set's checksum, every entry is submitted to
\* receive() in order, the framing record raises no error, the other entries
\* are applied and the consumer's state is left as it was (POLLING).
C5_FramedBundleApplied ==
  [][\A c \in ChainIds :
       (polls_frame(c) /\ store.bundle[1].end_checksum # checksum(cset)) =>
         /\ call'.submitted = Len(store.bundle)
         /\ call'.error = "none"
         /\ checksum(cset') = store.bundle[1].end_checksum
         /\ client'.state = client.state
         /\ chains'[c].pc # "backoff"]_vars

C5_Witness ==
  /\ call.op = "_process_updates" /\ ~call.skipped
  /\ is_metadata(call.arg)
  /\ call.error = "Unknown event type"

\* C7: the consumer starts in INITIAL, and a step takes it from INITIAL to
\* POLLING only as the end of an iteration that read a class name equal to
\* the managed class's, read a pulsars mapping holding the configured tag,
\* and applied the snapshot with update_set_to without an error.
C7_PollingOnlyAfterHandshake ==
  /\ client.state = "INITIAL"
  /\ [][client.state = "INITIAL" /\ client'.state = "POLLING" =>
          \E c \in ChainIds :
            /\ chains[c].pc = "all"
            /\ chains[c].server_class_name = ClassName
            /\ Pulsar_tag \in chains[c].available_pulsars
            /\ call'.op = "update_set_to" /\ call'.error = "none"
            /\ call'.before = cset /\ ids_of(cset') = ids_of(call'.arg)
            /\ ~InFlight(chains'[c])]_vars

C7_Witness ==
  /\ client.state = "POLLING" /\ client.running
  /\ call.op = "update_set_to" /\ call.error = "none" /\ call.arg # <<>>

raises(c) == chains[c].error = "none" /\ chains'[c].error # "none"

C9_SingleIterationInFlight ==
  Cardinality({c \in ChainIds : InFlight(chains[c])}) <= 1

C9_Witness ==
  /\ client.running
  /\ \A c \in ChainIds : InFlight(chains[c])

\* the timer chains that exist: a tick scheduled, or an iteration executing
\* (suspended in a get or in a backoff wait)
live_chains == {c \in ChainIds : chains[c].pc # "none"}

\* C38: for every interleaving of start(), stop(), resync() and timer
\* ticks, a stop() followed by a start() while an iteration is in flight
\* included, at most one loop tick is scheduled or executing, and while the
\* consumer is stopped no tick is scheduled.
C38_SingleLoopChain ==
  /\ Cardinality(live_chains) <= 1
  /\ ~client.running => \A c \in ChainIds : chains[c].pc # "timer"

\* the consumer was stopped and started again while an iteration was in
\* flight: that iteration is over and its chain has scheduled a tick again
C38_Witness ==
  /\ client.running
  /\ \A c \in ChainIds : chains[c].pc = "timer"

\* C10: resync() changes no chain, no Set and no datastore key, and the next
\* iteration to begin after it executes the INITIAL branch.
C10_ResyncForcesInitial ==
  [][/\ Client_resync => UNCHANGED <<chains, cset, store>>
     /\ (resynced /\ ~resynced' /\ client'.running) => client.state = "INITIAL"]_vars

C10_Witness ==
  resynced /\ client.state = "POLLING" /\ client.running

\* ---- convergence properties (specifications SpecFair, SpecResync) -----
InSync == checksum(cset) = checksum(pset)

\* C1: with the consumer running, ticks firing, gets succeeding and the Pulse
\* triggering, once the producer stops mutating the consumer's Set
\* eventually has the producer's checksum and keeps it.
C1_EventualConvergence == <>[]InSync

C1_Witness ==
  /\ mutations = MaxMutations
  /\ client.running /\ client.state = "POLLING" /\ InSync
  /\ cset # <<>>

\* C3: after resync() on a running consumer whose Set has diverged, with
\* gets succeeding, the consumer eventually is in POLLING with its Set's
\* checksum equal to the producer's.
C3_ResyncRecovers == resynced ~> (client.state = "POLLING" /\ InSync)

C3_Witness ==
  /\ call.op = "update_set_to" /\ call.error = "TypeError"
  /\ client.state = "INITIAL" /\ client.running
  /\ ids_of(cset) = ids_of(pset) /\ ~InSync

\* ------------------------------------------------------------------------
\* SpecLifecycle: the DatastoreClient against a matching server whose Set
\* stays empty, with start(), stop() and resync() called in any state,
\* the calls that throw included
\* ------------------------------------------------------------------------
InitLifecycle == Init /\ pset = <<>> /\ store = NewStore(ClassName, UpdateInterval)

\* a variant in which the rejected call also resets the backoff pointer
Rejected_resets(op, error) ==
  /\ call' = [NoCall EXCEPT !.op = op, !.error = error]
  /\ client' = [client EXCEPT !.currentStep = reset, !.runloop_iterations = 0]
  /\ UNCHANGED <<producer_vars, cset, chains, resynced, mirror_vars>>

\* what a lifecycle call that throws leaves behind
Rejected(op, error) ==
  /\ call' = [NoCall EXCEPT !.op = op, !.error = error]
  /\ UNCHANGED <<producer_vars, cset, client, chains, resynced, mirror_vars>>

\* start() on a running client: `if (this.#running) throw`
Client_start_throws ==
  /\ client.running
  /\ Rejected("start", "client is already running")

\* stop() on a client that is not running
Client_stop_throws ==
  /\ ~client.running
  /\ Rejected("stop", "client is not running")

\* resync() on a client that is not running
Client_resync_throws ==
  /\ ~client.running
  /\ Rejected("resync", "client is not running")

NextLifecycle ==
  \/ Client_start
  \/ Client_stop
  \/ Client_resync
  \/ Client_start_throws
  \/ Client_stop_throws
  \/ Client_resync_throws
  \/ Ticks
  \/ Gets_return
  \/ \E c \in ChainIds : Runloop_get_throws(c)
  \/ Backoffs_end

SpecLifecycle == InitLifecycle /\ [][NextLifecycle]_vars

\* ---- lifecycle properties (specifications Spec, SpecLifecycle) ----------
\* C11: stop() cancels the pending tick, returns the state to INITIAL and
\* the backoff pointer to step 0, and the state stays INITIAL until the
\* next start(): a consumer that is not running is in INITIAL.
C11_StoppedIsInitial == ~client.running => client.state = "INITIAL"

C11_Witness ==
  /\ ~client.running /\ client.state = "INITIAL" /\ client.currentStep = reset
  /\ client.runloop_interval_id = NoTimer
  /\ \E c \in ChainIds : InFlight(chains[c])

lifecycle_throws ==
  call' # call /\ call'.op \in {"start", "stop", "resync"} /\ call'.error # "none"

MaxQueued == 4                     \* events queued between two triggers

InitQueue ==
  /\ pset \in InitialSets /\ installed = TRUE
  /\ pulsar \in {NewPulsar(c, e, i, t) : c \in BOOLEAN, e \in BOOLEAN,
                                          i \in BOOLEAN, t \in BOOLEAN}
  /\ server = [running |-> FALSE] /\ store = NoStore /\ mutations = 0
  /\ cset = <<>> /\ call = NoCall
  /\ client = NewClient /\ chains = [c \in ChainIds |-> IdleChain]
  /\ resynced = FALSE
  /\ base = pset /\ applied = NotApplied /\ queued = <<>> /\ fanout = NoFanout
  /\ backoff = NewBackoff(BackoffSteps) /\ synchroitem = NoItemCall
  /\ endpoint = NoEndpoint /\ shared = NoShared /\ polling = NoPolling /\ cache = NoCache

\* a mutating call on the Set: its events go through _transmit to queue()
Set_mutates(r) ==
  /\ Len(queued) + Len(r.events) <= MaxQueued
  /\ pset' = r.items
  /\ pulsar' = _transmit(pulsar, r.events, pset)
  /\ queued' = queued \o r.events

Queue_mutate ==
  /\ ~applied.done
  /\ \/ \E item \in AddInputs :
          item.id \in SysIds /\ ~has(pset, item.id) /\ Set_mutates(add(pset, item))
     \/ \E id \in SysIds : has(pset, id) /\ Set_mutates(remove(pset, id))
     \/ \E id \in SysIds, k \in ObservedProps, v \in PropValues :
          /\ has(pset, id)
          /\ find(pset, id).props[k] # v
          /\ Set_mutates(set_property(pset, id, k, v))
     \/ \E id \in SysIds, k \in NotionNames, cell \in NotionInputs :
          /\ has(pset, id)
          /\ Set_mutates(set_notion(pset, id, k, cell.value, cell.timestamp))
  /\ UNCHANGED <<installed, server, store, mutations, consumer_vars, base, applied,
               fanout, backoff, synchroitem, endpoint, shared, polling, cache>>

\* pulsar.trigger(), by hand or from its timer
Pulsar_trigger ==
  LET t == trigger(pulsar, pset)
  IN  /\ ~applied.done
      /\ applied' = [done |-> TRUE, items |-> pset,
                     error |-> IF t.delivered THEN "none" ELSE "not delivered",
                     bundle |-> t.bundle]
      /\ pulsar' = empty(pulsar)
      /\ UNCHANGED <<pset, installed, server, store, mutations, consumer_vars,
                     base, queued, fanout, backoff, synchroitem, endpoint, shared, polling, cache>>

NextQueue == Queue_mutate \/ Pulsar_trigger

SpecQueue == InitQueue /\ [][NextQueue]_vars

\* ---- properties of emitted bundles (specification SpecQueue) ------------
Emitted == applied.done /\ applied.error = "none"
Names == ObservedProps \cup NotionNames
is_frame(e) == e.event_name = "comment"
entries == SelectSeq(applied.bundle, LAMBDA e : ~is_frame(e))
of_kind(seq, kind, id) ==
  {i \in DOMAIN seq : seq[i].event_name = kind /\ seq[i].item.id = id}
changes_of(seq, id, k) ==
  {i \in of_kind(seq, "changed", id) : seq[i].change.property = k}

\* C13: a bundle emitted by a collapsing Pulsar holds, for every id, at most
\* one `added`, at most one `removed`, and at most one `changed` per
\* property name.
C13_CollapsingInvariants ==
  (Emitted /\ pulsar.collapse) =>
    \A id \in Ids :
      /\ Cardinality(of_kind(entries, "added", id)) <= 1
      /\ Cardinality(of_kind(entries, "removed", id)) <= 1
      /\ \A k \in Names : Cardinality(changes_of(entries, id, k)) <= 1

C13_Witness ==
  /\ Emitted /\ pulsar.collapse
  /\ \E id \in Ids, k \in Names :
       /\ Cardinality(changes_of(queued, id, k)) >= 2
       /\ Cardinality(changes_of(entries, id, k)) = 1

\* the `added` and `removed` events of an id, in the order they were queued
life(id) == of_kind(queued, "added", id) \cup of_kind(queued, "removed", id)
First(S) == CHOOSE i \in S : \A j \in S : i <= j
Last(S) == CHOOSE i \in S : \A j \in S : j <= i

\* C14: in a collapsing bundle an `added` followed later in the interval by
\* a `removed` of the same id leaves neither (an `added` survives only when
\* no `removed` follows it, a `removed` only when no `added` of the interval
\* precedes it), and a `changed` survives only when no `removed` of its id
\* was queued after it, whether or not the id was added in the interval.
C14_RemoveCancels ==
  (Emitted /\ pulsar.collapse) =>
    \A id \in Ids :
      /\ Cardinality(of_kind(entries, "added", id)) =
           (IF life(id) # {} /\ queued[Last(life(id))].event_name = "added" THEN 1 ELSE 0)
      /\ Cardinality(of_kind(entries, "removed", id)) =
           (IF life(id) # {} /\ queued[First(life(id))].event_name = "removed" THEN 1 ELSE 0)
      /\ \A k \in Names :
           changes_of(entries, id, k) # {} <=>
             \E i \in changes_of(queued, id, k) :
               \A j \in of_kind(queued, "removed", id) : j < i

C14_Witness ==
  /\ Emitted /\ pulsar.collapse
  /\ \E id \in Ids :
       \E i \in of_kind(queued, "added", id), j \in of_kind(queued, "removed", id) :
         /\ i < j
         /\ \E c \in of_kind(queued, "changed", id) : i < c /\ c < j
         /\ of_kind(entries, "added", id) = {}
         /\ of_kind(entries, "removed", id) = {}
         /\ of_kind(entries, "changed", id) = {}

\* the changes of (id, k) queued after the last `removed` of id: the ones a
\* collapsing queue merges into the surviving entry
merged(id, k) ==
  {i \in changes_of(queued, id, k) : \A j \in of_kind(queued, "removed", id) : j < i}

carries(e, first, last) ==
  /\ e.change.new_value = JsonValue(queued[last].change.new_value)
  /\ e.change.new_timestamp = queued[last].change.new_timestamp
  /\ e.change.old_value = JsonValue(queued[first].change.old_value)

\* C15: in a collapsing bundle the surviving `changed` entry of (id,
\* property) carries the new_value and new_timestamp of the last change
\* queued since the previous trigger, and the old_value of the first change
\* to that property queued since the latest `removed` of that id (since the
\* previous trigger when the id was not removed in the interval).
C15_PreImagePreserved ==
  (Emitted /\ pulsar.collapse) =>
    \A id \in Ids, k \in Names :
      \A e \in changes_of(entries, id, k) :
        carries(entries[e], First(merged(id, k)), Last(changes_of(queued, id, k)))

\* C15 as stated: the old_value is that of the first change to the property
\* queued since the previous trigger, whatever happened to the id in between
C15_PreImageSinceTrigger ==
  (Emitted /\ pulsar.collapse) =>
    \A id \in Ids, k \in Names :
      \A e \in changes_of(entries, id, k) :
        carries(entries[e], First(changes_of(queued, id, k)),
                Last(changes_of(queued, id, k)))

C15_Witness ==
  /\ Emitted /\ pulsar.collapse
  /\ \E id \in Ids, k \in Names :
       /\ changes_of(entries, id, k) # {}
       /\ Cardinality(merged(id, k)) >= 2
       /\ queued[First(merged(id, k))].change.old_value
            # queued[Last(merged(id, k))].change.old_value

\* the queued events that a bundle is left with: an `added` that no
\* `removed` of its id follows, a `removed` that no `added` of its id
\* precedes, the latest `changed` of each property queued after the last
\* `removed` of its id; everything when the Pulsar does not collapse
surviving ==
  IF ~pulsar.collapse THEN DOMAIN queued
  ELSE {i \in DOMAIN queued :
          LET e == queued[i]
          IN  CASE e.event_name = "added" -> i = Last(life(e.item.id))
                [] e.event_name = "removed" -> i = First(life(e.item.id))
                [] e.event_name = "changed" ->
                     /\ i = Last(changes_of(queued, e.item.id, e.change.property))
                     /\ i \in merged(e.item.id, e.change.property)
                [] OTHER -> FALSE}
rank(i) == Cardinality({j \in surviving : j <= i})
same_event(e, q) ==
  /\ e.event_name = q.event_name /\ e.item.id = q.item.id
  /\ e.event_name = "changed" => e.change.property = q.change.property
in_queue_order ==
  /\ Len(entries) = Cardinality(surviving)
  /\ \A i \in surviving : same_event(entries[rank(i)], queued[i])

MaxPulseMutations == 3             \* mutating calls in one behaviour

NotTriggered ==
  [done |-> FALSE, items |-> <<>>, error |-> "none", bundle |-> <<>>,
   queued |-> <<>>, earlier |-> 0]

InitPulse ==
  /\ pset \in InitialSets /\ installed = TRUE
  /\ pulsar \in {NewPulsar(c, e, i, t) : c \in BOOLEAN, e \in BOOLEAN,
                                          i \in BOOLEAN, t \in BOOLEAN}
  /\ server = [running |-> FALSE] /\ store = NoStore /\ mutations = 0
  /\ cset = <<>> /\ call = NoCall
  /\ client = NewClient /\ chains = [c \in ChainIds |-> IdleChain]
  /\ resynced = FALSE
  /\ base = pset /\ applied = NotTriggered /\ queued = <<>> /\ fanout = NoFanout
  /\ backoff = NewBackoff(BackoffSteps) /\ synchroitem = NoItemCall
  /\ endpoint = NoEndpoint /\ shared = NoShared /\ polling = NoPolling /\ cache = NoCache

pulse_only == <<installed, server, store, consumer_vars, base, fanout, backoff,
                synchroitem, endpoint, shared, polling, cache>>

\* a mutating call on the Set between two triggers
Pulse_mutate ==
  /\ mutations < MaxPulseMutations
  /\ mutations' = mutations + 1
  /\ \/ \E item \in AddInputs :
          item.id \in SysIds /\ ~has(pset, item.id) /\ Set_mutates(add(pset, item))
     \/ \E id \in SysIds : has(pset, id) /\ Set_mutates(remove(pset, id))
     \/ \E id \in SysIds, k \in ObservedProps, v \in PropValues :
          /\ has(pset, id)
          /\ find(pset, id).props[k] # v
          /\ Set_mutates(set_property(pset, id, k, v))
     \/ \E id \in SysIds, k \in NotionNames, cell \in NotionInputs :
          /\ has(pset, id)
          /\ Set_mutates(set_notion(pset, id, k, cell.value, cell.timestamp))
  /\ UNCHANGED <<applied, pulse_only>>

\* pulsar.trigger(), by hand or from its timer: the bundle is handed to the
\* transmit functions, if any, and the Pulsar is emptied.  A transmit
\* function is code of the caller: it returns or it throws, and when it
\* throws the for loop is left and the empty() after it is not reached.
Pulse_trigger ==
  \E throws \in BOOLEAN :
    LET t == trigger(pulsar, pset)
    IN  /\ throws => t.delivered
        /\ applied' = [done |-> TRUE, items |-> pset,
                       error |-> IF throws THEN "transmit threw"
                                 ELSE IF t.delivered THEN "none" ELSE "not delivered",
                       bundle |-> t.bundle, queued |-> queued,
                       earlier |-> applied.earlier + Len(applied.queued)]
        /\ pulsar' = IF throws THEN pulsar ELSE empty(pulsar)
        /\ queued' = <<>>
        /\ UNCHANGED <<pset, mutations, pulse_only>>

NextPulse == Pulse_mutate \/ Pulse_trigger

SpecPulse == InitPulse /\ [][NextPulse]_vars

\* a bundle entry and the queued event it was made from
made_from(entry, e) ==
  /\ entry.event_name = e.event_name
  /\ entry.item.id = e.item.id
  /\ entry.event_name = "changed" => entry.change.property = e.change.property

\* C36: trigger() leaves the Pulsar empty (queue, added index, per-id
\* change index and captured start checksum); what the queue holds, and so
\* what a bundle holds besides its framing record, comes from the events
\* queued since the previous trigger only, never from an earlier interval;
\* and a Pulsar with no transmit function delivers nothing and is emptied
\* all the same.
C36_TriggerEmpties ==
  /\ Len(SelectSeq(pulsar.queue, LAMBDA e : ~IsNull(e))) <= Len(queued)
  /\ \A i \in DOMAIN pulsar.queue :
       IsNull(pulsar.queue[i])
         \/ \E j \in DOMAIN queued : made_from(pulsar.queue[i].payload, queued[j])
  /\ queued = <<>> =>
       /\ pulsar.queue = <<>>
       /\ \A id \in Ids : pulsar.added[id] = 0 /\ pulsar.changes_by_id[id] = <<>>
       /\ pulsar.start_checksum = NoChecksum
  /\ applied.done =>
       /\ Len(entries) <= Len(applied.queued)
       /\ \A i \in DOMAIN entries :
            \E j \in DOMAIN applied.queued : made_from(entries[i], applied.queued[j])
       /\ ~pulsar.transmit => applied.error = "not delivered" /\ applied.bundle = <<>>

C36_Witness ==
  /\ applied.done /\ applied.error = "none"
  /\ applied.earlier > 0
  /\ applied.queued # <<>> /\ entries # <<>>
  /\ queued = <<>>

\* ------------------------------------------------------------------------
\* SpecFanout: a Set with two listeners and a Pulsar as its transmit; the
\* first-mentioned listener of `added` may mutate the Set while the event
\* is being emitted, the other one records what it is handed
\* ------------------------------------------------------------------------
Reactions == {"none", "assign", "remove"}

InitFanout ==
  /\ pset \in InitialSets /\ installed = TRUE
  /\ pulsar = NewPulsar(FALSE, TRUE, FALSE, TRUE)
  /\ server = [running |-> FALSE] /\ store = NoStore /\ mutations = 0
  /\ cset = <<>> /\ call = NoCall
  /\ client = NewClient /\ chains = [c \in ChainIds |-> IdleChain]
  /\ resynced = FALSE
  /\ base = pset /\ applied = NotApplied /\ queued = <<>>
  /\ fanout \in {[NoFanout EXCEPT !.listener_first = b] : b \in BOOLEAN}
  /\ backoff = NewBackoff(BackoffSteps) /\ synchroitem = NoItemCall
  /\ endpoint = NoEndpoint /\ shared = NoShared /\ polling = NoPolling /\ cache = NoCache

\* what the listener does with the item of the `added` event it is handed
react(items, item, reaction) ==
  CASE reaction = "assign" -> set_property(items, item.id, "p", "v")
    [] reaction = "remove" -> remove(items, item.id)
    [] OTHER -> Result(items, <<>>, "none")

\* SynchroSet.add(item): #items.set, then emit('added') to the listeners in
\* the order they were registered, then _transmit('added'); a mutation made
\* by a listener runs its own emit and _transmit to the end inside the emit
Fanout_add ==
  \E item \in AddInputs, reaction \in Reactions :
    LET outer == add(pset, item)
        nested == react(outer.items, item, reaction)
        now == IF has(nested.items, item.id) THEN find(nested.items, item.id) ELSE item
        sent == nested.events \o <<Event("added", now, NoChange)>>
        seen == IF fanout.listener_first THEN nested.events \o outer.events
                ELSE outer.events \o nested.events
    IN  /\ item.id \in SysIds /\ ~has(pset, item.id)
        /\ Len(queued) + Len(sent) <= MaxQueued
        /\ pset' = nested.items
        /\ pulsar' = _transmit(pulsar, sent, pset)
        /\ queued' = queued \o sent
        /\ fanout' = [fanout EXCEPT !.mutated = @ \o outer.events \o nested.events,
                                    !.observed = @ \o seen]
        /\ UNCHANGED <<installed, server, store, mutations, consumer_vars, base, applied,
                       backoff, synchroitem, endpoint, shared, polling, cache>>

\* remove(item), a property assignment or set() made outside any listener
Fanout_mutate ==
  \E r \in {remove(pset, id) : id \in {i \in SysIds : has(pset, i)}}
        \cup {set_property(pset, id, k, v) :
                id \in {i \in SysIds : has(pset, i)}, k \in ObservedProps, v \in PropValues}
        \cup {set_notion(pset, id, k, cell.value, cell.timestamp) :
                id \in {i \in SysIds : has(pset, i)}, k \in NotionNames, cell \in NotionInputs} :
    /\ r.events # <<>>
    /\ Set_mutates(r)
    /\ fanout' = [fanout EXCEPT !.mutated = @ \o r.events, !.observed = @ \o r.events]
    /\ UNCHANGED <<installed, server, store, mutations, consumer_vars, base, applied,
                   backoff, synchroitem, endpoint, shared, polling, cache>>

NextFanout == Fanout_add \/ Fanout_mutate

SpecFanout == InitFanout /\ [][NextFanout]_vars

brief(seq) ==
  [i \in DOMAIN seq |-> <<seq[i].event_name, seq[i].item.id, seq[i].change.property>>]

\* C17: the listeners of a Set and its transmit sink are handed the
\* `added`, `removed` and `changed` events in the order in which the
\* mutations happened, also when a listener mutates the Set while an event
\* is being emitted.
C17_SetEventOrder ==
  /\ brief(fanout.observed) = brief(fanout.mutated)
  /\ brief(queued) = brief(fanout.mutated)

C17_Witness ==
  /\ Len(fanout.mutated) >= 2
  /\ brief(queued) # brief(fanout.mutated)
  /\ \E i \in DOMAIN queued : i > 1 /\ queued[i].event_name = "added"
                              /\ queued[i - 1].event_name = "changed"
                              /\ fanout.mutated[i - 1].event_name = "added"

frames == {i \in DOMAIN applied.bundle : is_frame(applied.bundle[i])}

C19_EmptySuppression ==
  applied.done =>
    /\ ~pulsar.transmit => ~Emitted
    /\ (pulsar.transmit /\ ~pulsar.allow_empty) =>
         /\ surviving = {} => (~Emitted /\ applied.bundle = <<>>)
         /\ surviving # {} => (Emitted /\ entries # <<>>)
    /\ (pulsar.transmit /\ pulsar.allow_empty) => Emitted

C19_Witness ==
  /\ applied.done /\ pulsar.transmit /\ ~pulsar.allow_empty /\ pulsar.collapse
  /\ queued # <<>> /\ surviving = {}
  /\ ~Emitted

\* ------------------------------------------------------------------------
\* SpecBackoff: one Backoff object, for every schedule of at most MaxSteps
\* steps; interval() calls follow one another, reset() may come at any time
\* ------------------------------------------------------------------------
MaxSteps == 3
MaxCalls == 4                      \* interval() calls counted since a reset
StepSeconds == {0, 1, 2}
Schedules == UNION {[1..n -> StepSeconds] : n \in 1..MaxSteps}

InitBackoff ==
  /\ pset = <<>> /\ installed = FALSE
  /\ pulsar = NewPulsar(TRUE, TRUE, FALSE, FALSE)
  /\ server = [running |-> FALSE] /\ store = NoStore /\ mutations = 0
  /\ cset = <<>> /\ call = NoCall
  /\ client = NewClient /\ chains = [c \in ChainIds |-> IdleChain]
  /\ resynced = FALSE
  /\ base = <<>> /\ applied = NotApplied /\ queued = <<>> /\ fanout = NoFanout
  /\ backoff \in {NewBackoff(s) : s \in Schedules} /\ synchroitem = NoItemCall
  /\ endpoint = NoEndpoint /\ shared = NoShared /\ polling = NoPolling /\ cache = NoCache

backoff_only == <<producer_vars, consumer_vars, base, applied, queued, fanout, synchroitem, endpoint, shared, polling, cache>>

\* interval() up to its await: without a delay it advances at once
Backoff_interval ==
  /\ ~backoff.waiting /\ backoff.returned < MaxCalls
  /\ backoff' = IF current_delay_ms(backoff) > 0
                THEN [backoff EXCEPT !.waiting = TRUE,
                                     !.delayMs = current_delay_ms(backoff)]
                ELSE [backoff EXCEPT !.currentStep = next_step(backoff),
                                     !.delayMs = 0, !.returned = @ + 1]
  /\ UNCHANGED backoff_only

\* the timer of the await fires: advance and return
Backoff_interval_resumes ==
  /\ backoff.waiting
  /\ backoff' = [backoff EXCEPT !.waiting = FALSE, !.currentStep = next_step(backoff),
                                !.returned = @ + 1]
  /\ UNCHANGED backoff_only

Backoff_reset ==
  /\ backoff' = [backoff EXCEPT !.currentStep = reset, !.returned = 0]
  /\ UNCHANGED backoff_only

NextBackoff == Backoff_interval \/ Backoff_interval_resumes \/ Backoff_reset

SpecBackoff == InitBackoff /\ [][NextBackoff]_vars

Min(a, b) == IF a < b THEN a ELSE b

\* C20: when k interval() calls have returned since the construction or the
\* last reset(), the step is min(k, n-1) and current_delay_ms is the step
\* s[min(k, n-1)] of the schedule; the step stays within 0..n-1; after a
\* reset(), from any step, no call has returned and the step is 0.
C20_BackoffSteps ==
  /\ backoff.currentStep = Min(backoff.returned, Len(backoff.steps) - 1)
  /\ current_delay_ms(backoff)
       = backoff.steps[Min(backoff.returned, Len(backoff.steps) - 1) + 1]
  /\ backoff.currentStep \in 0..(Len(backoff.steps) - 1)

C20_Witness ==
  /\ Len(backoff.steps) = MaxSteps
  /\ backoff.returned = MaxCalls
  /\ backoff.currentStep = MaxSteps - 1
  /\ backoff.steps[MaxSteps] = 2000

\* ------------------------------------------------------------------------
\* SpecSet: one Set with a listener and a Pulsar that does not collapse as
\* its transmit; add(), remove(), receive() and assignments to items are
\* called on it, with arguments that make them throw as well
\* ------------------------------------------------------------------------
MaxSetCalls == 3
Foreign == {[id |-> id, kind |-> "Cat"] : id \in Ids}   \* objects of another class
Stub(id) == [id |-> id]

InitSet ==
  /\ pset \in InitialSets /\ installed = TRUE
  /\ pulsar = NewPulsar(FALSE, TRUE, FALSE, TRUE)
  /\ server = [running |-> FALSE] /\ store = NoStore /\ mutations = 0
  /\ cset = <<>> /\ call = NoCall
  /\ client = NewClient /\ chains = [c \in ChainIds |-> IdleChain]
  /\ resynced = FALSE
  /\ base = pset /\ applied = NotApplied /\ queued = <<>> /\ fanout = NoFanout
  /\ backoff = NewBackoff(BackoffSteps) /\ synchroitem = NoItemCall
  /\ endpoint = NoEndpoint /\ shared = NoShared /\ polling = NoPolling /\ cache = NoCache

\* what every call on the Set does with its result: the events go to the
\* listener and through _transmit to the Pulsar
Set_call(op, arg, r) ==
  /\ fanout.clock < MaxSetCalls
  /\ pset' = r.items
  /\ pulsar' = _transmit(pulsar, r.events, pset)
  /\ queued' = queued \o r.events
  /\ call' = [NoCall EXCEPT !.op = op, !.before = pset, !.arg = arg,
                            !.error = r.error, !.events = r.events,
                            !.submitted = Len(pulsar'.queue) - Len(pulsar.queue)]
  /\ UNCHANGED <<installed, server, store, mutations, cset, client, chains, resynced,
                 base, applied, backoff, synchroitem, endpoint, shared, polling, cache>>

Set_logs(r, detached, received) ==
  fanout' = [fanout EXCEPT !.mutated = @ \o r.events, !.observed = @ \o r.events,
                           !.detached = detached, !.clock = @ + 1,
                           !.last_receive = IF received THEN fanout.clock + 1 ELSE @]

Set_add ==
  \E obj \in AddInputs \cup Foreign :
    /\ Set_call("add", obj, add(pset, obj))
    /\ Set_logs(add(pset, obj), fanout.detached, FALSE)

\* C21: add(item) fails for an object that is not of the managed class and
\* for an id the Set holds, and then leaves the items as they were, emits no
\* `added` and submits nothing to the sink; when it succeeds the item is
\* found by its id, is the last of all(), and one `added` event and one
\* submission to the sink were made.  The ids of the Set stay distinct.
C21_AddContract ==
  /\ DistinctIds(pset)
  /\ [][/\ DistinctIds(pset')
        /\ (fanout'.clock # fanout.clock /\ call'.op = "add") =>
             LET obj == call'.arg
             IN  IF ~instance_of(obj) \/ has(pset, obj.id)
                 THEN /\ call'.error # "none" /\ pset' = pset
                      /\ call'.events = <<>> /\ fanout'.observed = fanout.observed
                      /\ call'.submitted = 0 /\ pulsar'.queue = pulsar.queue
                 ELSE /\ call'.error = "none"
                      /\ has(pset', obj.id) /\ find(pset', obj.id) = obj
                      /\ pset' = Append(pset, obj)
                      /\ call'.events = <<Event("added", obj, NoChange)>>
                      /\ fanout'.observed = Append(fanout.observed, Event("added", obj, NoChange))
                      /\ call'.submitted = 1
                      /\ pulsar'.queue = Append(pulsar.queue, plain("added", obj, NoChange))]_vars

C21_Witness ==
  /\ call.op = "add" /\ call.error = "already exists"
  /\ Len(pset) = 2 /\ call.before = pset
  /\ \E i \in DOMAIN fanout.mutated : fanout.mutated[i].event_name = "added"

\* `typeof item.off === 'function'`: an item has off(), a stub has not
has_off(arg) == instance_of(arg)

\* remove(item) with the member itself or with an object that only has its
\* id; the member keeps the Set's listener unless off() was called on it
Set_remove ==
  \E id \in Ids, arg \in {"item", "stub"} :
    LET r == remove(pset, id)
        handed == IF arg = "item" /\ has(pset, id) THEN find(pset, id) ELSE Stub(id)
        gone == IF r.error = "none"
                THEN Append(fanout.detached,
                            [item |-> find(pset, id), hooked |-> ~has_off(handed)])
                ELSE fanout.detached
    IN  /\ Set_call("remove", handed, r)
        /\ Set_logs(r, gone, FALSE)

\* an observed property of a member is assigned
Item_assigns ==
  \E id \in Ids, k \in ObservedProps, v \in PropValues :
    /\ has(pset, id)
    /\ Set_call("assign", find(pset, id), set_property(pset, id, k, v))
    /\ Set_logs(set_property(pset, id, k, v), fanout.detached, FALSE)

\* an observed property of an item that was removed is assigned: the item
\* emits `changed`, which reaches _on_changed when the listener is still on
Removed_item_assigns ==
  \E i \in DOMAIN fanout.detached, k \in ObservedProps, v \in PropValues :
    LET was == fanout.detached[i]
        d == dirty(was.item, k, v)
        relayed == IF was.hooked THEN d.events ELSE <<>>
    IN  /\ d.events # <<>>
        /\ Set_call("assign_removed", was.item, Result(pset, relayed, "none"))
        /\ fanout' = [fanout EXCEPT !.observed = @ \o relayed,
                                    !.detached[i].item = d.item, !.clock = @ + 1]

\* C22: after a remove() that succeeded, with the item or with a stub of
\* its id, the id is not found, the Set's listener is off the removed item,
\* and an assignment to the removed item gives no `changed` event of the Set
\* and no submission to the sink.
C22_RemovedItemsSilent ==
  [][/\ (fanout'.clock # fanout.clock /\ call'.op = "remove" /\ call'.error = "none") =>
          /\ ~has(pset', call'.arg.id)
          /\ ~fanout'.detached[Len(fanout'.detached)].hooked
     /\ (fanout'.clock # fanout.clock /\ call'.op = "assign_removed") =>
          /\ call'.events = <<>> /\ call'.submitted = 0
          /\ fanout'.observed = fanout.observed /\ queued' = queued]_vars

C22_Witness ==
  /\ call.op = "assign_removed" /\ call.events # <<>> /\ call.submitted = 1
  /\ ~has(pset, call.arg.id)
  /\ \E i \in DOMAIN fanout.detached : fanout.detached[i].hooked

\* the texts handed to receive(): what payload() writes for the three
\* events, an object without event_name, and a frame of another kind
ReceiveInputs ==
  {payload("added", it, NoChange) : it \in AddInputs}
  \cup {payload("removed", NewItem(id), NoChange) : id \in Ids}
  \cup {payload("changed", NewItem(id),
                [property |-> k, old_value |-> Undefined, new_value |-> v,
                 new_timestamp |-> NoTimestamp]) : id \in Ids, k \in ObservedProps, v \in PropValues}
  \cup {payload("changed", NewItem(id),
                [property |-> k, old_value |-> Undefined, new_value |-> c.value,
                 new_timestamp |-> c.timestamp]) : id \in Ids, k \in NotionNames, c \in NotionInputs}
  \cup {payload("changed", NewItem(id),
                [property |-> k, old_value |-> Undefined, new_value |-> "v",
                 new_timestamp |-> InvalidTimestamp]) : id \in Ids, k \in NotionNames}
  \cup {[event_name |-> Undefined], [event_name |-> "comment"]}

\* receive(str): the payload is applied and then #last_receive is set; a
\* `removed` hands remove() the parsed { id }, which has no off()
Set_receive ==
  \E pl \in ReceiveInputs :
    LET r == receive(pset, pl)
        gone == IF pl.event_name = "removed" /\ r.error = "none"
                THEN Append(fanout.detached,
                            [item |-> find(pset, pl.item.id), hooked |-> ~has_off(pl.item)])
                ELSE fanout.detached
    IN  /\ Set_call("receive", pl, r)
        /\ Set_logs(r, gone, r.error = "none")

\* C27: receive(payload) adds an item rebuilt from the snapshot for
\* `added`, removes the id for `removed`, sets the named value for a
\* `changed` with a new_timestamp and assigns the property for one without;
\* it fails for a payload without event_name, for a `removed` or `changed`
\* of an id the Set does not hold and for an `added` of an id it holds, and
\* then nothing is applied; the time of the last receive is set exactly
\* when the payload was applied.
C27_ReceiveDispatch ==
  [][(fanout'.clock # fanout.clock /\ call'.op = "receive") =>
       LET pl == call'.arg
           name == pl.event_name
           held_id == name \in {"added", "removed", "changed"} /\ has(pset, pl.item.id)
           fails == \/ name = Undefined
                    \/ name \in {"removed", "changed"} /\ ~held_id
                    \/ name = "added" /\ held_id
       IN  /\ fails => call'.error # "none" /\ pset' = pset /\ call'.events = <<>>
           /\ call'.error # "none" => fanout'.last_receive = fanout.last_receive
           /\ call'.error = "none" =>
                /\ fanout'.last_receive = fanout'.clock
                /\ name = "added" =>
                     /\ Len(pset') = Len(pset) + 1
                     /\ toObject(pset'[Len(pset')]) = pl.item
                /\ name = "removed" =>
                     /\ ~has(pset', pl.item.id) /\ Len(pset') = Len(pset) - 1
                /\ (name = "changed" /\ pl.change.new_timestamp # NoTimestamp) =>
                     /\ find(pset', pl.item.id).notions[pl.change.property]
                          = [value |-> JsonGet(pl.change.new_value),
                             timestamp |-> pl.change.new_timestamp]
                     /\ find(pset', pl.item.id).props = find(pset, pl.item.id).props
                /\ (name = "changed" /\ pl.change.new_timestamp = NoTimestamp) =>
                     /\ find(pset', pl.item.id).props[pl.change.property]
                          = JsonGet(pl.change.new_value)
                     /\ find(pset', pl.item.id).notions = find(pset, pl.item.id).notions]_vars

\* a change for an id the Set does not hold was refused after an earlier
\* payload had been applied, and the time of the last receive stayed
C27_Witness ==
  /\ call.op = "receive" /\ call.arg.event_name = "changed"
  /\ call.error = "not found for change event"
  /\ fanout.last_receive > 0 /\ fanout.last_receive < fanout.clock
  /\ pset = call.before /\ pset # <<>>

\* C39: whenever receive(payload) raises an error, for a payload without
\* event_name, an unknown event name, an id the Set does not hold, an id it
\* holds already or a named-value change whose timestamp is no date, the
\* Set holds the same items with the same properties, named values and
\* checksums as before the call, and no event was emitted.
C39_ReceiveFailureAtomic ==
  (call.op = "receive" /\ call.error # "none") =>
    /\ pset = call.before
    /\ checksum(pset) = checksum(call.before)
    /\ call.events = <<>>

\* a named-value change with a timestamp that is no date was refused for
\* an item the Set holds
C39_Witness ==
  /\ call.op = "receive" /\ call.error = "Invalid timestamp"
  /\ has(call.before, call.arg.item.id)
  /\ call.events = <<>>

NextSet ==
  Set_add \/ Set_remove \/ Item_assigns \/ Removed_item_assigns \/ Set_receive

SpecSet == InitSet /\ [][NextSet]_vars

\* ------------------------------------------------------------------------
\* SpecItem: one SynchroItem; its properties are assigned, set(), unset()
\* and update_to() are called on it and its checksum is read
\* ------------------------------------------------------------------------
MaxItemCalls == 4
Instants == {1, 2}
ItemValues == {"v", "w"}

\* the items handed to update_to: two objects t1 and t2 for every state
\* taken, with their own Date objects, and an object of another class
TargetNotions ==
  {<<>>, <<[name |-> "m", value |-> "v", t |-> 1]>>,
   <<[name |-> "n", value |-> "w", t |-> 2], [name |-> "m", value |-> "v", t |-> 1]>>}
Targets ==
  {[type |-> ClassName, props |-> [k \in ObservedProps |-> IF k = "p" THEN v ELSE Undefined],
    notions |-> [i \in DOMAIN ns |->
                   [name |-> ns[i].name, value |-> ns[i].value,
                    timestamp |-> Date(ns[i].t, ref)]]] :
     v \in PropValues, ns \in TargetNotions, ref \in {"t1", "t2"}}
  \cup {[type |-> "Cat", props |-> [k \in ObservedProps |-> "v"], notions |-> <<>>]}

InitItem ==
  /\ pset = <<>> /\ installed = FALSE
  /\ pulsar = NewPulsar(TRUE, TRUE, FALSE, FALSE)
  /\ server = [running |-> FALSE] /\ store = NoStore /\ mutations = 0
  /\ cset = <<>> /\ call = NoCall
  /\ client = NewClient /\ chains = [c \in ChainIds |-> IdleChain]
  /\ resynced = FALSE
  /\ base = <<>> /\ applied = NotApplied /\ queued = <<>> /\ fanout = NoFanout
  /\ backoff = NewBackoff(BackoffSteps) /\ synchroitem = NoItemCall
  /\ endpoint = NoEndpoint /\ shared = NoShared /\ polling = NoPolling /\ cache = NoCache

item_only == <<producer_vars, consumer_vars, base, applied, queued, fanout, backoff, endpoint, shared, polling, cache>>

Item_call(op, arg, o) ==
  /\ synchroitem.calls < MaxItemCalls
  /\ synchroitem' = [item |-> o.item, calls |-> synchroitem.calls + 1, op |-> op,
                     arg |-> arg, events |-> o.events, error |-> o.error,
                     before |-> synchroitem.item]
  /\ UNCHANGED item_only

Own_assign ==
  \E k \in ObservedProps, v \in PropValues :
    Item_call("assign", <<k, v>>, assign(synchroitem.item, k, v))

\* set() with a timestamp string: set_value makes a Date object of its own
Own_set ==
  \E name \in ItemNames, v \in ItemValues, t \in Instants :
    Item_call("set", [name |-> name, value |-> v, t |-> t],
              set(synchroitem.item, name, v, Date(t, "mine")))

Own_unset ==
  \E name \in ItemNames :
    Item_call("unset", name, unset_notion(synchroitem.item, name))

Own_update_to ==
  \E target \in Targets :
    Item_call("update_to", target, update_to_target(synchroitem.item, target))

\* get checksum: recalculated only when #checksum is null
Own_checksum ==
  /\ synchroitem.item.checksum = Null
  /\ Item_call("checksum", <<>>,
               Outcome([synchroitem.item EXCEPT !.checksum = recalculate(synchroitem.item)],
                       <<>>, "none"))

NextItem == Own_assign \/ Own_set \/ Own_unset \/ Own_update_to \/ Own_checksum

SpecItem == InitItem /\ [][NextItem]_vars

\* C23: the checksum an item reports is the one computed from scratch from
\* its id, class name, observed properties and notions with timestamps,
\* after any sequence of assignments, set(), unset() and update_to().
C23_ChecksumIsPure ==
  synchroitem.item.checksum # Null =>
    synchroitem.item.checksum = recalculate(synchroitem.item)

C23_Witness ==
  /\ synchroitem.op = "unset" /\ synchroitem.error = "none"
  /\ synchroitem.item.checksum # Null
  /\ synchroitem.item.checksum = recalculate(synchroitem.before)
  /\ synchroitem.item.checksum # recalculate(synchroitem.item)

Reverse(seq) == [i \in DOMAIN seq |-> seq[Len(seq) + 1 - i]]

\* the Sets that add() builds from AddInputs, in every order of adding
AddLists == UNION {{l \in [1..n -> AddInputs] : DistinctIds(l)} : n \in 0..MaxItems}

\* C24: an item's checksum is the same whatever the order in which its
\* notions were created, and the checksum of a Set is the same for the same
\* items whatever the order in which they were added, also after an item
\* was added and removed again in between.
C24_ChecksumOrderIndependent ==
  /\ recalculate([synchroitem.item EXCEPT !.notions = Reverse(@)])
       = recalculate(synchroitem.item)
  /\ \A list \in AddLists :
       /\ checksum(Reverse(list)) = checksum(list)
       /\ \A it \in AddInputs :
            ~has(list, it.id) =>
              /\ checksum(add(list, it).items) = checksum(<<it>> \o list)
              /\ checksum(remove(add(list, it).items, it.id).items) = checksum(list)

C24_Witness ==
  /\ Len(synchroitem.item.notions) = 2
  /\ synchroitem.item.notions[1].name = "n" /\ synchroitem.item.notions[2].name = "m"
  /\ synchroitem.op = "checksum"
  /\ synchroitem.item.checksum = recalculate([synchroitem.item EXCEPT !.notions = Reverse(@)])

\* the pair a notion of the item holds is the pair set() was called with
same_pair(it, a) ==
  /\ a.name \in names_of(it)
  /\ notion(it, a.name).value = a.value
  /\ notion(it, a.name).timestamp.t = a.t

\* C25: set(name, value, timestamp) emits `changed` exactly when the value
\* or the instant of the timestamp differs from the pair the notion holds;
\* setting the same value with the same timestamp again emits nothing.
C25_SetEmitsIffChanged ==
  [][(synchroitem'.calls # synchroitem.calls /\ synchroitem'.op = "set") =>
       (synchroitem'.events # <<>>
          <=> ~same_pair(synchroitem.item, synchroitem'.arg))]_vars

C25_Witness ==
  /\ synchroitem.op = "set"
  /\ same_pair(synchroitem.before, synchroitem.arg)
  /\ synchroitem.events # <<>>
  /\ synchroitem.item.notions = synchroitem.before.notions

\* what an item or a target holds: properties, and name -> (value, instant)
held(o) ==
  [props |-> o.props,
   notions |-> {<<o.notions[i].name, o.notions[i].value, o.notions[i].timestamp.t>> :
                  i \in DOMAIN o.notions}]

\* the property or notion of an event is one where target and item differ
differs_at(before, target, e) ==
  IF e.new_timestamp = NoDate
  THEN before.props[e.property] # target.props[e.property]
  ELSE ~same_pair(before, [name |-> e.property, value |-> e.new_value,
                           t |-> e.new_timestamp.t])

\* C26: update_to(target) leaves the properties and notions equal to the
\* target's and emits `changed` only where a value or the instant of a
\* timestamp differs, so a target of equal state emits nothing; a target
\* of another class fails and leaves the item as it was.
C26_UpdateToTarget ==
  synchroitem.op = "update_to" =>
    IF synchroitem.arg.type # ClassName
    THEN /\ synchroitem.error = "TypeError"
         /\ synchroitem.item = synchroitem.before
         /\ synchroitem.events = <<>>
    ELSE /\ held(synchroitem.item) = held(synchroitem.arg)
         /\ \A i \in DOMAIN synchroitem.events :
              differs_at(synchroitem.before, synchroitem.arg, synchroitem.events[i])
         /\ held(synchroitem.before) = held(synchroitem.arg) => synchroitem.events = <<>>

C26_Witness ==
  /\ synchroitem.op = "update_to"
  /\ synchroitem.arg.type = ClassName
  /\ synchroitem.before.notions # <<>>
  /\ held(synchroitem.before) = held(synchroitem.arg)
  /\ synchroitem.events # <<>>

\* ------------------------------------------------------------------------
\* SpecEndpoint: a DatastoreServer with its cadences, the Pulsars it makes
\* and the keys of the datastore, with a consumer reading them
\* ------------------------------------------------------------------------
MaxEndpointMutations == 2
MaxStarts == 2                     \* start() calls that succeed in one behaviour

\* options.update_intervals, written in milliseconds ([0.5], [1.5], [0.1, 1])
CadenceLists == {<<500>>, <<1500>>, <<100, 1000>>}

NoTag == [n |-> 0, unit |-> "none"]
Key(node, tag) == [node |-> node, tag |-> tag]
Range(seq) == {seq[i] : i \in DOMAIN seq}

\* datastore.set(key, value)
put(data, key, value) ==
  [k \in DOMAIN data \cup {key} |-> IF k = key THEN value ELSE data[k]]

\* a transmit that writes every bundle to the `pulsars` key
pulsars_key(interval) == Key("pulsars", NoTag)

\* `${namespace}.pulsars.${DatastoreServer.interval_string(interval)}`
pulsar_key(interval) == Key("pulsars", interval_string(interval))

\* a stop() that leaves the interval timer
stop_keeps_timer(m) == m

\* Pulsar.stop(): clearInterval
stop_pulsar(m) == [m EXCEPT !.timer = FALSE]

\* new DatastoreServer(options): the three keys registered at construction
NewEndpoint(update_intervals) ==
  LET tags == {interval_string(update_intervals[i]) : i \in DOMAIN update_intervals}
  IN  [NoEndpoint EXCEPT
         !.update_intervals = update_intervals,
         !.data = put(put(put(<<>>, Key("all", NoTag), "producer"),
                          Key("classname", NoTag), ClassName),
                      Key("pulsars", NoTag), [t \in tags |-> <<>>]),
         !.op = "new",
         !.wrote = {Key("all", NoTag), Key("classname", NoTag), Key("pulsars", NoTag)}]

InitEndpoint ==
  /\ pset \in InitialSets /\ installed = FALSE
  /\ pulsar = NewPulsar(TRUE, TRUE, FALSE, FALSE)
  /\ server = [running |-> FALSE] /\ store = NoStore /\ mutations = 0
  /\ cset = <<>> /\ call = NoCall
  /\ client = NewClient /\ chains = [c \in ChainIds |-> IdleChain]
  /\ resynced = FALSE
  /\ base = <<>> /\ applied = NotApplied /\ queued = <<>> /\ fanout = NoFanout
  /\ backoff = NewBackoff(BackoffSteps) /\ synchroitem = NoItemCall
  /\ endpoint \in {NewEndpoint(list) : list \in CadenceLists}
  /\ shared = NoShared /\ polling = NoPolling /\ cache = NoCache

endpoint_only ==
  <<installed, pulsar, server, store, consumer_vars, base, applied, queued, fanout,
    backoff, synchroitem, shared, polling, cache>>

\* start(): one new Pulsar per interval, the array installed as the Set's
\* transmit, every Pulsar started; throws when already running
Endpoint_start ==
  /\ Len(endpoint.made) < MaxStarts * Len(endpoint.update_intervals)
  /\ endpoint' =
       IF endpoint.running
       THEN [endpoint EXCEPT !.op = "start throws", !.wrote = {}]
       ELSE LET ui == endpoint.update_intervals
                new == [i \in DOMAIN ui |->
                          [interval |-> ui[i], key |-> pulsar_key(ui[i]), timer |-> TRUE,
                           p |-> NewPulsar(TRUE, TRUE, FALSE, TRUE),
                           alone |-> NewPulsar(TRUE, TRUE, FALSE, TRUE)]]
                ids == [i \in DOMAIN ui |-> Len(endpoint.made) + i]
            IN  [endpoint EXCEPT !.made = @ \o new, !.pulsars = ids, !.transmit = ids,
                                 !.running = TRUE, !.op = "start", !.wrote = {}]
  /\ UNCHANGED <<pset, mutations, endpoint_only>>

\* stop(): every Pulsar of #pulsars is stopped; throws when not running
Endpoint_stop ==
  /\ endpoint' =
       IF ~endpoint.running
       THEN [endpoint EXCEPT !.op = "stop throws", !.wrote = {}]
       ELSE [endpoint EXCEPT
               !.made = [i \in DOMAIN @ |->
                           IF i \in Range(endpoint.pulsars) THEN stop_pulsar(@[i]) ELSE @[i]],
               !.running = FALSE, !.op = "stop", !.wrote = {}]
  /\ UNCHANGED <<pset, mutations, endpoint_only>>

\* a mutation of the Set: _transmit hands its events to every Pulsar of
\* the Set's #transmit.  `alone` is, for each Pulsar, a Pulsar with the same
\* options that is the only sink of a Set going through the same mutations
\* and is triggered when the Pulsar is.
Endpoint_hears(r) ==
  /\ r.error = "none" /\ r.events # <<>>
  /\ mutations < MaxEndpointMutations
  /\ mutations' = mutations + 1
  /\ pset' = r.items
  /\ endpoint' =
       [endpoint EXCEPT
          !.made = [i \in DOMAIN @ |->
                      IF i \in Range(endpoint.transmit)
                      THEN [transmit_all(endpoint.made, endpoint.transmit, r.events, pset)[i]
                              EXCEPT !.alone = _transmit(@, r.events, pset)]
                      ELSE @[i]],
          !.op = "mutate", !.wrote = {}]
  /\ UNCHANGED endpoint_only

Endpoint_mutate ==
  \/ \E item \in AddInputs : item.id \in SysIds /\ Endpoint_hears(add(pset, item))
  \/ \E id \in SysIds : Endpoint_hears(remove(pset, id))
  \/ \E id \in SysIds, k \in ObservedProps, v \in PropValues :
       has(pset, id) /\ Endpoint_hears(set_property(pset, id, k, v))

\* the setInterval of a started Pulsar fires: trigger() hands the bundle to
\* the Pulsar's transmit, which sets the Pulsar's key, and empties the queue
Endpoint_pulse ==
  \E i \in DOMAIN endpoint.made :
    /\ endpoint.made[i].timer
    /\ LET m == endpoint.made[i]
           t == trigger(m.p, pset)
       IN  endpoint' =
             [endpoint EXCEPT
                !.made[i].p = empty(m.p),
                !.made[i].alone = empty(m.alone),
                !.data = IF t.delivered THEN put(@, m.key, t.bundle) ELSE @,
                !.op = "pulse", !.wrote = IF t.delivered THEN {m.key} ELSE {},
                !.arg = i]
    /\ UNCHANGED <<pset, mutations, endpoint_only>>

\* the DatastoreClient of a cadence the producer lists: datastore.get of
\* classname, pulsars, all and pulsars.<tag>; after `all` it polls at the
\* interval the tag names
Consumer_get ==
  \E tag \in DOMAIN endpoint.data[Key("pulsars", NoTag)] :
  \E key \in {Key("classname", NoTag), Key("pulsars", NoTag), Key("all", NoTag),
              Key("pulsars", tag)} :
    /\ endpoint' =
         [endpoint EXCEPT
            !.op = "get", !.arg = key, !.wrote = {},
            !.polling_interval_ms =
               IF key = Key("all", NoTag) THEN polling_interval_to_ms(tag) ELSE @]
    /\ UNCHANGED <<pset, mutations, endpoint_only>>

NextEndpoint ==
  Endpoint_start \/ Endpoint_stop \/ Endpoint_mutate \/ Endpoint_pulse \/ Consumer_get

SpecEndpoint == InitEndpoint /\ [][NextEndpoint]_vars

\* tags of the grammar: {n}ms with n in 100..999, {n}s with n positive
GrammarTags ==
  {[n |-> n, unit |-> "ms"] : n \in {100, 101, 500, 999}}
  \cup {[n |-> n, unit |-> "s"] : n \in {1, 2, 10, 3600}}

\* C28: the consumer's parse of the producer's tag for a cadence gives the
\* cadence back in milliseconds, so every Pulsar emits at the interval its
\* key names, and the producer's tag of a parsed tag of the grammar is the
\* tag itself.
C28_CadenceTagRoundTrip ==
  /\ \A i \in DOMAIN endpoint.update_intervals :
       polling_interval_to_ms(interval_string(endpoint.update_intervals[i]))
         = endpoint.update_intervals[i]
  /\ \A i \in DOMAIN endpoint.made :
       polling_interval_to_ms(endpoint.made[i].key.tag) = endpoint.made[i].interval
  /\ \A t \in GrammarTags : interval_string(polling_interval_to_ms(t)) = t

\* a Pulsar that emits every 1500 ms wrote to the key 2s, and a consumer
\* of that key polls every 2000 ms
C28_Witness ==
  /\ endpoint.op = "pulse"
  /\ endpoint.made[endpoint.arg].interval = 1500
  /\ endpoint.wrote = {Key("pulsars", [n |-> 2, unit |-> "s"])}
  /\ endpoint.polling_interval_ms = 2000

\* C29: the consumer only reads keys; the producer writes classname, all
\* and pulsars when it is constructed, and afterwards the only writes are
\* those of a Pulsar's bundle to pulsars.<tag of its interval>, each one
\* replacing the bundle the key held.
C29_KeyspaceDiscipline ==
  /\ endpoint.wrote = {Key("classname", NoTag), Key("all", NoTag), Key("pulsars", NoTag)}
  /\ DOMAIN endpoint.data = endpoint.wrote
  /\ [][LET own == Key("pulsars",
                       interval_string(endpoint.made[endpoint'.arg].interval))
        IN  IF endpoint'.op = "pulse"
            THEN /\ endpoint'.wrote \subseteq {own}
                 /\ \A k \in DOMAIN endpoint.data \ endpoint'.wrote :
                      k \in DOMAIN endpoint'.data /\ endpoint'.data[k] = endpoint.data[k]
                 /\ DOMAIN endpoint'.data = DOMAIN endpoint.data \cup endpoint'.wrote
                 /\ \A k \in endpoint'.wrote :
                      endpoint'.data[k] = trigger(endpoint.made[endpoint'.arg].p, pset).bundle
            ELSE endpoint'.data = endpoint.data /\ endpoint'.wrote = {}]_vars

\* a Pulsar replaced a bundle of one event by the empty bundle, after the
\* consumer had read keys
C29_Witness ==
  /\ endpoint.op = "pulse" /\ endpoint.wrote # {}
  /\ \A k \in endpoint.wrote : endpoint.data[k] = <<>>
  /\ mutations > 0 /\ endpoint.polling_interval_ms > 0

\* the Pulsars with a running timer
active == {i \in DOMAIN endpoint.made : endpoint.made[i].timer}

\* C30: while the endpoint is stopped no Pulsar writes; a start() after a
\* stop() succeeds and leaves one running Pulsar for each configured
\* interval, these being the Set's sinks, and a mutation made then reaches
\* each of them and is written at its next pulse.
C30_StopAndRestart ==
  [][/\ ~endpoint.running =>
          /\ endpoint'.op # "pulse"
          /\ endpoint'.data = endpoint.data
          /\ active = {}
     /\ (~endpoint.running /\ endpoint'.op = "start") =>
          /\ endpoint'.running
          /\ active' = Range(endpoint'.pulsars)
          /\ Range(endpoint'.transmit) = active'
          /\ Len(endpoint'.pulsars) = Len(endpoint.update_intervals)
          /\ \A k \in DOMAIN endpoint'.pulsars :
               /\ endpoint'.made[endpoint'.pulsars[k]].interval = endpoint.update_intervals[k]
               /\ \A j \in DOMAIN endpoint'.pulsars : endpoint'.pulsars[j] = endpoint'.pulsars[k] => j = k
     /\ (endpoint.running /\ endpoint'.op = "mutate") =>
          \A i \in active : endpoint'.made[i].p.queue # endpoint.made[i].p.queue
     /\ (endpoint.running /\ endpoint'.op = "pulse") =>
          /\ endpoint'.arg \in active
          /\ endpoint'.wrote = {endpoint.made[endpoint'.arg].key}
          /\ endpoint'.data[endpoint.made[endpoint'.arg].key]
               = [j \in DOMAIN SelectSeq(endpoint.made[endpoint'.arg].p.queue,
                                          LAMBDA e : ~IsNull(e)) |->
                    SelectSeq(endpoint.made[endpoint'.arg].p.queue,
                              LAMBDA e : ~IsNull(e))[j].payload]]_vars

\* after a restart a mutation was written by a Pulsar of the second start,
\* while the Pulsars of the first start are stopped
C30_Witness ==
  /\ endpoint.running /\ endpoint.op = "pulse"
  /\ Len(endpoint.made) = MaxStarts * Len(endpoint.update_intervals)
  /\ Len(endpoint.update_intervals) = 2
  /\ endpoint.arg \in Range(endpoint.pulsars)
  /\ \A k \in endpoint.wrote : endpoint.data[k] # <<>>
  /\ endpoint.wrote # {}
  /\ \A i \in DOMAIN endpoint.update_intervals : ~endpoint.made[i].timer

\* C37: the Pulsars of one Set are independent: whenever they are
\* triggered, what each of them holds, and so the bundle of its next
\* trigger, old_value of every `changed` entry included, is what it would
\* hold as the only sink of a Set going through the same mutations since
\* its own previous trigger.
C37_IndependentCadences ==
  \A i \in DOMAIN endpoint.made :
    trigger(endpoint.made[i].p, pset).bundle = trigger(endpoint.made[i].alone, pset).bundle

\* two Pulsars of the Set, one triggered between two changes of a property
\* and the other not: one holds the collapsed change, the other the second
C37_Witness ==
  /\ endpoint.op = "mutate"
  /\ \E i, j \in Range(endpoint.transmit) :
       /\ Len(endpoint.made[i].p.queue) = 2 /\ IsNull(endpoint.made[i].p.queue[1])
       /\ endpoint.made[i].p.queue[2].event_name = "changed"
       /\ Len(endpoint.made[j].p.queue) = 1
       /\ endpoint.made[j].p.queue[1].event_name = "changed"

\* ------------------------------------------------------------------------
\* SpecShared: item objects and two Sets of the same managed class
\* ------------------------------------------------------------------------
MaxSharedCalls == 4
SetIds == {1, 2}
Refs == {"x", "y", "z"}            \* item objects; x and y were made with one id
IdOf(ref) == IF ref = "z" THEN "b" ELSE "a"

\* the members of a Set, as #items.values()
members(S) == [i \in DOMAIN shared.sets[S] |-> shared.objects[shared.sets[S][i]]]

InitShared ==
  /\ pset = <<>> /\ installed = FALSE
  /\ pulsar = NewPulsar(TRUE, TRUE, FALSE, FALSE)
  /\ server = [running |-> FALSE] /\ store = NoStore /\ mutations = 0
  /\ cset = <<>> /\ call = NoCall
  /\ client = NewClient /\ chains = [c \in ChainIds |-> IdleChain]
  /\ resynced = FALSE
  /\ base = <<>> /\ applied = NotApplied /\ queued = <<>> /\ fanout = NoFanout
  /\ backoff = NewBackoff(BackoffSteps) /\ synchroitem = NoItemCall
  /\ endpoint = NoEndpoint
  /\ shared = [NoShared EXCEPT !.objects = [r \in Refs |-> NewItem(IdOf(r))],
                               !.sets = [S \in SetIds |-> <<>>],
                               !.hooks = [r \in Refs |-> <<>>]]
  /\ polling = NoPolling /\ cache = NoCache

shared_only ==
  <<producer_vars, consumer_vars, base, applied, queued, fanout, backoff, synchroitem,
    endpoint, polling, cache>>

Shared_call(op, error, next) ==
  /\ shared.calls < MaxSharedCalls
  /\ shared' = [next EXCEPT !.calls = shared.calls + 1, !.op = op, !.error = error]
  /\ UNCHANGED shared_only

\* S.add(item) with the item object: the id is looked up among the members
\* of S, the object is stored and S listens to its `changed`
Shared_add ==
  \E S \in SetIds, ref \in Refs :
    LET r == add(members(S), shared.objects[ref])
    IN  Shared_call("add", r.error,
          IF r.error # "none" THEN [shared EXCEPT !.relayed = <<>>]
          ELSE [shared EXCEPT !.sets[S] = Append(@, ref),
                              !.hooks[ref] = Append(@, S), !.relayed = <<>>])

\* S.remove(item) with a member object: deleted and item.off() called
Shared_remove ==
  \E S \in SetIds, ref \in Refs :
    /\ ref \in Range(shared.sets[S])
    /\ Shared_call("remove", "none",
         [shared EXCEPT !.sets[S] = SelectSeq(@, LAMBDA m : m # ref),
                        !.hooks[ref] = SelectSeq(@, LAMBDA h : h # S),
                        !.relayed = <<>>])

\* an observed property of an object is assigned: the `changed` event of
\* the item runs _on_changed of every Set that listens to it
Shared_assign ==
  \E ref \in Refs, k \in ObservedProps, v \in PropValues :
    LET d == dirty(shared.objects[ref], k, v)
    IN  /\ d.events # <<>>
        /\ Shared_call("assign", "none",
             [shared EXCEPT !.objects[ref] = d.item, !.relayed = shared.hooks[ref]])

NextShared == Shared_add \/ Shared_remove \/ Shared_assign

SpecShared == InitShared /\ [][NextShared]_vars

\* C31: an item object is a member of at most one Set, and a change of one
\* item is relayed by at most one Set.
C31_AtMostOneSet ==
  /\ \A ref \in Refs : \A S, T \in SetIds :
       (ref \in Range(shared.sets[S]) /\ ref \in Range(shared.sets[T])) => S = T
  /\ Len(shared.relayed) <= 1

C31_Witness ==
  /\ shared.op = "assign"
  /\ \E ref \in Refs : \A S \in SetIds : ref \in Range(shared.sets[S])
  /\ Len(shared.relayed) = 2

\* ------------------------------------------------------------------------
\* SpecPolling: the loop counter of a consumer for several loop intervals
\* and cadence tags, through its INITIAL and POLLING iterations
\* ------------------------------------------------------------------------
MaxFetches == 3
RunloopIntervals == {30, 50, 100, 1000}          \* options.runloop_interval
PollingTags ==
  {[n |-> 100, unit |-> "ms"], [n |-> 125, unit |-> "ms"], [n |-> 500, unit |-> "ms"],
   [n |-> 1, unit |-> "s"]}

InitPolling ==
  /\ pset = <<>> /\ installed = FALSE
  /\ pulsar = NewPulsar(TRUE, TRUE, FALSE, FALSE)
  /\ server = [running |-> FALSE] /\ store = NoStore /\ mutations = 0
  /\ cset = <<>> /\ call = NoCall
  /\ client = NewClient /\ chains = [c \in ChainIds |-> IdleChain]
  /\ resynced = FALSE
  /\ base = <<>> /\ applied = NotApplied /\ queued = <<>> /\ fanout = NoFanout
  /\ backoff = NewBackoff(BackoffSteps) /\ synchroitem = NoItemCall
  /\ endpoint = NoEndpoint /\ shared = NoShared /\ cache = NoCache
  /\ polling \in {[NoPolling EXCEPT !.runloop_interval = r,
                                    !.polling_interval_ms = DefaultPollingIntervalMs] :
                    r \in RunloopIntervals}

polling_only ==
  <<producer_vars, consumer_vars, base, applied, queued, fanout, backoff, synchroitem,
    endpoint, shared, cache>>

\* an iteration in INITIAL: the counter is incremented; when the three
\* gets and update_set_to succeed the interval is taken from the tag, the
\* state becomes POLLING and the counter is reset, otherwise the catch
\* block leaves the state INITIAL
Polling_initial ==
  /\ polling.state = "INITIAL"
  /\ polling.fetches < MaxFetches
  /\ \/ \E tag \in PollingTags :
          polling' = [polling EXCEPT !.polling_interval_ms = polling_interval_to_ms(tag),
                                     !.state = "POLLING", !.runloop_iterations = 0,
                                     !.got = FALSE, !.since = 0]
     \/ /\ polling.runloop_iterations < MaxIterations
        /\ polling' = [polling EXCEPT !.runloop_iterations = @ + 1, !.got = FALSE]
  /\ UNCHANGED polling_only

\* an iteration in POLLING: the counter is incremented and tested; when due
\* it is reset and pulsars.<tag> is fetched, and a get or a receive that
\* throws takes the state back to INITIAL.  `since` counts the iterations
\* made since the last fetch or since POLLING was entered, this one included
Polling_iteration ==
  /\ polling.state = "POLLING"
  /\ polling.fetches < MaxFetches
  /\ LET n == polling.runloop_iterations + 1
         made == (IF polling.got THEN 0 ELSE polling.since) + 1
     IN  IF due(n, polling.runloop_interval, polling.polling_interval_ms)
         THEN \E outcome \in {"POLLING", "INITIAL"} :
                polling' = [polling EXCEPT !.runloop_iterations = 0, !.got = TRUE,
                                           !.since = made,
                                           !.fetches = @ + 1, !.state = outcome]
         ELSE polling' = [polling EXCEPT !.runloop_iterations = n, !.got = FALSE,
                                         !.since = made]
  /\ UNCHANGED polling_only

NextPolling == Polling_initial \/ Polling_iteration

SpecPolling == InitPolling /\ [][NextPolling]_vars

Ceil(a, b) == (a + b - 1) \div b

\* C32: while the consumer stays in POLLING an iteration fetches exactly
\* when ceil(pollingIntervalMs / runloopInterval) iterations were made
\* since the last fetch or since POLLING was entered, the counter is reset
\* there, and the iterations in between get nothing.
C32_PollingCadence ==
  [][(polling.state = "POLLING" /\ polling'.state = "POLLING" /\ polling' # polling) =>
       LET before == IF polling.got THEN 0 ELSE polling.since
           every == Ceil(polling.polling_interval_ms, polling.runloop_interval)
       IN  /\ polling'.got <=> before + 1 = every
           /\ before + 1 <= every
           /\ polling'.got => polling'.runloop_iterations = 0
           /\ ~polling'.got => polling'.fetches = polling.fetches]_vars

\* a second fetch, three iterations after the first, for 125 ms at 50 ms
C32_Witness ==
  /\ polling.state = "POLLING" /\ polling.got /\ polling.fetches = 2
  /\ polling.polling_interval_ms = 125 /\ polling.runloop_interval = 50
  /\ polling.since = 3

\* ------------------------------------------------------------------------
\* SpecRetry: a consumer and its Backoff object: iterations that succeed or
\* throw, the wait of the catch block, and start(), stop() and resync()
\* called at any time
\* ------------------------------------------------------------------------
InitRetry ==
  /\ pset = <<>> /\ installed = FALSE
  /\ pulsar = NewPulsar(TRUE, TRUE, FALSE, FALSE)
  /\ server = [running |-> FALSE] /\ store = NoStore /\ mutations = 0
  /\ cset = <<>> /\ call = NoCall
  /\ client = NewClient /\ chains = [c \in ChainIds |-> IdleChain]
  /\ resynced = FALSE
  /\ base = <<>> /\ applied = NotApplied /\ queued = <<>> /\ fanout = NoFanout
  /\ backoff \in {NewBackoff(s) : s \in Schedules} /\ synchroitem = NoItemCall
  /\ endpoint = NoEndpoint /\ shared = NoShared /\ polling = NoPolling /\ cache = NoCache

retry_only ==
  <<producer_vars, consumer_vars, base, applied, queued, fanout, synchroitem, endpoint,
    shared, cache>>

cleared(b) == [b EXCEPT !.currentStep = reset, !.returned = 0]

\* start(): running, backoff.reset(), the loop is scheduled
Retry_start ==
  /\ ~polling.running
  /\ polling' = [polling EXCEPT !.running = TRUE, !.failures = 0, !.op = "start"]
  /\ backoff' = cleared(backoff)
  /\ UNCHANGED retry_only

\* stop(): not running, INITIAL, the busy flag cleared, backoff.reset()
Retry_stop ==
  /\ polling.running
  /\ polling' = [polling EXCEPT !.running = FALSE, !.state = "INITIAL", !.busy = FALSE,
                                !.failures = 0, !.op = "stop"]
  /\ backoff' = cleared(backoff)
  /\ UNCHANGED retry_only

\* resync(): INITIAL, backoff.reset(), the counter cleared
Retry_resync ==
  /\ polling.running
  /\ polling' = [polling EXCEPT !.state = "INITIAL", !.runloop_iterations = 0,
                                !.failures = 0, !.op = "resync"]
  /\ backoff' = cleared(backoff)
  /\ UNCHANGED retry_only

\* an iteration without error: an INITIAL one ends in POLLING, and both
\* branches call backoff.reset()
Retry_succeeds ==
  /\ polling.running /\ ~polling.busy /\ ~backoff.waiting
  /\ polling' = [polling EXCEPT !.state = "POLLING", !.failures = 0, !.op = "succeeds"]
  /\ backoff' = cleared(backoff)
  /\ UNCHANGED retry_only

\* an iteration that throws: the catch block sets INITIAL and awaits
\* backoff.interval(), which waits current_delay_ms and then advances; a
\* delay of 0 is not awaited
Retry_fails ==
  /\ polling.running /\ ~polling.busy /\ ~backoff.waiting
  /\ polling.failures < MaxCalls
  /\ polling' = [polling EXCEPT !.state = "INITIAL", !.failures = @ + 1,
                                !.waited = current_delay_ms(backoff),
                                !.busy = current_delay_ms(backoff) > 0, !.op = "fails"]
  /\ backoff' = IF current_delay_ms(backoff) > 0
                THEN [backoff EXCEPT !.waiting = TRUE,
                                     !.delayMs = current_delay_ms(backoff)]
                ELSE [backoff EXCEPT !.currentStep = next_step(backoff),
                                     !.delayMs = 0, !.returned = @ + 1]
  /\ UNCHANGED retry_only

\* the wait of interval() is over: the step advances, then finally
Retry_wait_ends ==
  /\ backoff.waiting
  /\ backoff' = [backoff EXCEPT !.waiting = FALSE, !.currentStep = next_step(backoff),
                                !.returned = @ + 1]
  /\ polling' = [polling EXCEPT !.busy = FALSE, !.op = "wait ends"]
  /\ UNCHANGED retry_only

NextRetry ==
  \/ Retry_start \/ Retry_stop \/ Retry_resync
  \/ Retry_succeeds \/ Retry_fails \/ Retry_wait_ends

SpecRetry == InitRetry /\ [][NextRetry]_vars

\* C33: the k-th failing iteration in a row since the last success,
\* start(), stop() or resync() waits the step min(k-1, n-1) of the
\* schedule, so the first failure after any of these waits the first step.
C33_BackoffSequence ==
  polling.op = "fails" =>
    polling.waited = backoff.steps[Min(polling.failures - 1, Len(backoff.steps) - 1) + 1]

\* the first failure after a resync() waited the second step
C33_Witness ==
  /\ polling.op = "fails" /\ polling.failures = 1
  /\ Len(backoff.steps) = 2
  /\ polling.waited = backoff.steps[2] /\ backoff.steps[2] # backoff.steps[1]

\* ------------------------------------------------------------------------
\* SpecDirty: one item with two observed properties and one that is not
\* observed; values are stored with and without dirty(), and dirty() is
\* called on its own
\* ------------------------------------------------------------------------
MaxDirtyCalls == 4
NaN == "NaN"                       \* the number NaN
DirtyValues == {Undefined, "v", NaN}
Unobserved == "q"
DirtyProps == ObservedProps \cup {Unobserved}

\* a !== b of JavaScript on these values: NaN is unequal to itself
strict_unequal(a, b) == a # b \/ a = NaN \/ b = NaN

\* the two events of one property that dirty() found changed
dirty_events(name, new_value, old_value) ==
  <<[event |-> <<"changed">>, property |-> name, new_value |-> new_value,
     old_value |-> old_value],
    [event |-> <<"changed", name>>, property |-> name, new_value |-> new_value,
     old_value |-> old_value]>>

\* dirty(): for (const propertyname in this.#observed_properties)
RECURSIVE dirty_observed(_, _)
dirty_observed(o, names) ==
  IF names = <<>> THEN o
  ELSE LET name == Head(names)
           old_value == o.item.old_value[name]
           new_value == o.item.current[name]
       IN  IF strict_unequal(new_value, old_value)
           THEN dirty_observed(
                  Outcome([o.item EXCEPT !.old_value[name] = new_value, !.checksum = Null],
                          o.events \o dirty_events(name, new_value, old_value), "none"),
                  Tail(names))
           ELSE dirty_observed(o, Tail(names))

\* after the constructor of the subclass: observed_properties was set and
\* dirty() has run, with nobody listening yet
InitDirty ==
  /\ pset = <<>> /\ installed = FALSE
  /\ pulsar = NewPulsar(TRUE, TRUE, FALSE, FALSE)
  /\ server = [running |-> FALSE] /\ store = NoStore /\ mutations = 0
  /\ cset = <<>> /\ call = NoCall
  /\ client = NewClient /\ chains = [c \in ChainIds |-> IdleChain]
  /\ resynced = FALSE
  /\ base = <<>> /\ applied = NotApplied /\ queued = <<>> /\ fanout = NoFanout
  /\ backoff = NewBackoff(BackoffSteps)
  /\ endpoint = NoEndpoint /\ shared = NoShared /\ polling = NoPolling /\ cache = NoCache
  /\ \E v \in {Undefined, "v"} :
       LET made == [id |-> "a", current |-> [k \in DirtyProps |-> v],
                    old_value |-> [k \in ObservedProps |-> v], checksum |-> Null]
       IN  synchroitem = [NoItemCall EXCEPT !.item = made, !.before = made]

\* this._prop = value, with no call of dirty()
Dirty_store ==
  \E k \in DirtyProps, v \in DirtyValues :
    /\ synchroitem.item.current[k] # v
    /\ synchroitem.calls < MaxDirtyCalls
    /\ synchroitem' = [synchroitem EXCEPT !.item.current[k] = v, !.before = synchroitem.item,
                                          !.op = "store", !.arg = k, !.events = <<>>]
    /\ UNCHANGED item_only

\* a setter of the subclass: the value is stored and dirty() is called
Dirty_assign ==
  \E k \in DirtyProps, v \in DirtyValues :
    Item_call("assign", k,
              dirty_observed(Outcome([synchroitem.item EXCEPT !.current[k] = v], <<>>, "none"),
                             NameOrder))

\* dirty() called by the application
Dirty_call ==
  Item_call("dirty", <<>>, dirty_observed(Outcome(synchroitem.item, <<>>, "none"), NameOrder))

NextDirty == Dirty_store \/ Dirty_assign \/ Dirty_call

SpecDirty == InitDirty /\ [][NextDirty]_vars

\* the events expected of dirty() on an item: the two events of every
\* observed property whose value is not the last observed one
RECURSIVE expected_events(_, _)
expected_events(it, names) ==
  IF names = <<>> THEN <<>>
  ELSE (IF it.current[Head(names)] # it.old_value[Head(names)]
        THEN dirty_events(Head(names), it.current[Head(names)], it.old_value[Head(names)])
        ELSE <<>>) \o expected_events(it, Tail(names))

\* C34: dirty() emits `changed` and `changed:<property>` once for each
\* observed property whose value differs from the last observed one, with
\* that one as old_value and the current one as new_value, and records the
\* current value, so that a dirty() right after it finds no difference and
\* emits nothing; the property that is not observed never gives an event.
C34_DirtyEmitsDifferences ==
  /\ synchroitem.op = "dirty" =>
       /\ synchroitem.events = expected_events(synchroitem.before, NameOrder)
       /\ \A k \in ObservedProps :
            synchroitem.item.old_value[k] = synchroitem.before.current[k]
       /\ expected_events(synchroitem.item, NameOrder) = <<>>
  /\ \A i \in DOMAIN synchroitem.events : synchroitem.events[i].property # Unobserved

\* a dirty() that follows a dirty() emitted the two events of a property
\* whose value is NaN
C34_Witness ==
  /\ synchroitem.op = "dirty" /\ synchroitem.events # <<>>
  /\ synchroitem.before.current = synchroitem.item.current
  /\ \A k \in ObservedProps : synchroitem.before.old_value[k] = synchroitem.before.current[k]

\* ------------------------------------------------------------------------
\* SpecCache: a Set with its lazily computed #checksum, its members with
\* theirs, and the handlers that read Set.checksum: a handler of the item's
\* own `changed` event registered before the item was added, a handler of
\* the Set's events, and a transmit function
\* ------------------------------------------------------------------------
MaxCacheCalls == 3

\* get checksum of an item, without the store into #checksum
item_checksum(it) == IF it.checksum = Null THEN recalculate(it) ELSE it.checksum

\* SynchroSet._recalculate_checksum over what the members' getters return
members_checksum(items) ==
  LET sorted_ids == SelectSeq(IdOrder, LAMBDA id : has(items, id))
  IN  Sha256([i \in DOMAIN sorted_ids |-> item_checksum(find(items, sorted_ids[i]))])

\* a handler reads Set.checksum: the getter recalculates when #checksum is
\* null, and then every member's getter has filled its own #checksum
read_checksum(c, at) ==
  LET got == IF c.checksum = Null THEN members_checksum(c.items) ELSE c.checksum
  IN  [c EXCEPT
         !.items = IF c.checksum = Null
                   THEN [i \in DOMAIN c.items |->
                           [c.items[i] EXCEPT !.checksum = item_checksum(c.items[i])]]
                   ELSE @,
         !.checksum = got,
         !.reads = Append(@, [at |-> at, got |-> got, want |-> members_checksum(c.items)])]

\* this.#checksum = null; this.emit(name, ...); this._transmit(name, ...)
invalidate_and_emit(c, name) ==
  read_checksum(read_checksum([c EXCEPT !.checksum = Null], name), "transmit")

\* the item of the event as it is when the event is emitted
at_event(it, e) ==
  IF e.new_timestamp = NoDate
  THEN [it EXCEPT !.props[e.property] = e.new_value, !.checksum = Null]
  ELSE set(it, e.property, e.new_value, e.new_timestamp).item

\* the `changed` events of one call on a member, one after the other: the
\* item's own handlers run in the order they were registered, so a handler
\* registered before add() runs before the Set's _on_changed
RECURSIVE on_changed(_, _, _)
on_changed(c, id, events) ==
  IF events = <<>> THEN c
  ELSE LET now == [c EXCEPT !.items = replace(@, at_event(find(c.items, id), Head(events)))]
           early == IF id \in c.early THEN read_checksum(now, "item changed") ELSE now
       IN  on_changed(invalidate_and_emit(early, "changed"), id, Tail(events))

InitCache ==
  /\ pset = <<>> /\ installed = FALSE
  /\ pulsar = NewPulsar(TRUE, TRUE, FALSE, FALSE)
  /\ server = [running |-> FALSE] /\ store = NoStore /\ mutations = 0
  /\ cset = <<>> /\ call = NoCall
  /\ client = NewClient /\ chains = [c \in ChainIds |-> IdleChain]
  /\ resynced = FALSE
  /\ base = <<>> /\ applied = NotApplied /\ queued = <<>> /\ fanout = NoFanout
  /\ backoff = NewBackoff(BackoffSteps) /\ synchroitem = NoItemCall
  /\ endpoint = NoEndpoint /\ shared = NoShared /\ polling = NoPolling
  /\ cache = NoCache

cache_only ==
  <<producer_vars, consumer_vars, base, applied, queued, fanout, backoff, synchroitem,
    endpoint, shared, polling>>

Cache_call(op, next) ==
  /\ cache.calls < MaxCacheCalls
  /\ cache' = [next EXCEPT !.calls = cache.calls + 1, !.op = op]
  /\ UNCHANGED cache_only

started == [cache EXCEPT !.reads = <<>>]

\* set.add(item), the item with or without a `changed` handler of its own
Cache_add ==
  \E id \in Ids, handler \in BOOLEAN :
    /\ ~has(cache.items, id)
    /\ Cache_call("add",
         invalidate_and_emit(
           [started EXCEPT !.items = Append(@, [NewSynchroItem EXCEPT !.id = id]),
                           !.early = IF handler THEN @ \cup {id} ELSE @],
           "added"))

\* set.remove(item)
Cache_remove ==
  \E id \in Ids :
    /\ has(cache.items, id)
    /\ Cache_call("remove",
         invalidate_and_emit(
           [started EXCEPT !.items = SelectSeq(@, LAMBDA it : it.id # id),
                           !.early = @ \ {id}],
           "removed"))

\* a call on a member: its events, then the state it leaves the item in
Cache_member(op, id, o) ==
  Cache_call(op, [on_changed(started, id, o.events) EXCEPT
                    !.items = replace(@, [o.item EXCEPT
                                 !.checksum = IF o.events = <<>> THEN o.item.checksum
                                              ELSE find(on_changed(started, id, o.events).items,
                                                        id).checksum])])

Cache_assign ==
  \E id \in Ids, k \in ObservedProps, v \in PropValues :
    has(cache.items, id) /\ Cache_member("assign", id, assign(find(cache.items, id), k, v))

Cache_set ==
  \E id \in Ids, v \in ItemValues :
    /\ has(cache.items, id)
    /\ Cache_member("set", id, set(find(cache.items, id), "n", v, Date(1, "mine")))

Cache_unset ==
  \E id \in Ids :
    has(cache.items, id) /\ Cache_member("unset", id, unset_notion(find(cache.items, id), "n"))

Cache_update_to ==
  \E id \in Ids, target \in Targets :
    /\ has(cache.items, id)
    /\ Cache_member("update_to", id, update_to_target(find(cache.items, id), target))

\* the caller reads set.checksum between two calls
Cache_read ==
  Cache_call("read", read_checksum(started, "caller"))

NextCache ==
  Cache_add \/ Cache_remove \/ Cache_assign \/ Cache_set \/ Cache_unset
    \/ Cache_update_to \/ Cache_read

SpecCache == InitCache /\ [][NextCache]_vars

\* C40: wherever Set.checksum is read, in a handler of an item's `changed`
\* event, in a handler of the Set's `added`, `removed` and `changed` events,
\* in a transmit function or by the caller between two calls, the value is
\* the hash of the checksums the members report at that moment, in id
\* order, after add, remove, an assignment, set(), unset() and update_to().
C40_ChecksumCacheCoherent ==
  \A i \in DOMAIN cache.reads : cache.reads[i].got = cache.reads[i].want

\* a member was changed after Set.checksum had been computed, and the
\* handlers read it
C40_Witness ==
  /\ cache.op \in {"assign", "set", "update_to"}
  /\ Len(cache.reads) >= 3
  /\ cache.reads[1].at = "item changed"
  /\ cache.reads[2].at = "changed" /\ cache.reads[2].got = cache.reads[2].want

====
